---- MODULE Spec2Model ----
(***************************************************************************)
(* Gravity Sculptor: the particle physics core (Physics), the gesture      *)
(* layer of the hand tracker (HandTracker) and the animation frame of the  *)
(* application (GravitySculptor.animate).                                   *)
(*                                                                         *)
(* Numbers.  JavaScript numbers are modelled in fixed point: the integer v *)
(* stands for v / Unit, products and quotients are rounded toward zero,    *)
(* and the one non-finite value the code can produce, NaN, is a value of   *)
(* its own that every arithmetic operator propagates and every comparison  *)
(* answers FALSE on, as IEEE 754 does.                                     *)
(***************************************************************************)
EXTENDS Integers, Sequences, FiniteSets, TLC

\* ------------------------------------------------------------------ bounds
MaxParticles == 2
MaxSteps == 2

MaxAppSteps == 4

MaxGameSteps == 3

\* The clicks, idle frames and direct calls around a running challenge.
MaxChallengeSteps == 1

\* -------------------------------------------------------------- arithmetic
\* Values that an operator reads more than once are passed to it as
\* arguments, which the model checker evaluates once.
Unit == 10 * 1000

NaN == 0 - (2 ^ 30)

IsNaN(x) == x = NaN

Abs(x) == IF x < 0 THEN 0 - x ELSE x

Max2(a, b) == IF a >= b THEN a ELSE b

Min2(a, b) == IF a <= b THEN a ELSE b

\* a / b rounded toward zero, b > 0
Quot(a, b) == IF a >= 0 THEN a \div b ELSE 0 - ((0 - a) \div b)

\* a + b
FAdd(a, b) == IF IsNaN(a) \/ IsNaN(b) THEN NaN ELSE a + b

\* a - b
FSub(a, b) == IF IsNaN(a) \/ IsNaN(b) THEN NaN ELSE a - b

\* a * (num / den), den > 0
FScale(a, num, den) == IF IsNaN(a) \/ IsNaN(num) \/ IsNaN(den) THEN NaN ELSE Quot(a * num, den)

\* a * b of two fixed-point numbers
FMul(a, b) == FScale(a, b, Unit)

\* a / b of two fixed-point numbers, b > 0
FDiv(a, b) == FScale(a, Unit, b)

\* a < b, a > b: FALSE when either side is NaN
FLt(a, b) == ~IsNaN(a) /\ ~IsNaN(b) /\ a < b

FGt(a, b) == ~IsNaN(a) /\ ~IsNaN(b) /\ a > b

\* floor of the square root of n >= 0, by bisection on [lo, hi]
RECURSIVE SqrtBisect(_, _, _)
SqrtHalve(n, lo, hi, mid) ==
    IF mid * mid <= n THEN SqrtBisect(n, mid, hi) ELSE SqrtBisect(n, lo, mid - 1)

SqrtBisect(n, lo, hi) == IF lo >= hi THEN lo ELSE SqrtHalve(n, lo, hi, (lo + hi + 1) \div 2)

\* 46340 is the largest integer whose square fits the integer width
ISqrt(n) == SqrtBisect(n, 0, Min2(n, 46340))

SumSq(x, y, z) == x * x + y * y + z * z

HypotScaled(a, b, c, k) == k * ISqrt(SumSq(Quot(a, k), Quot(b, k), Quot(c, k)))

\* Math.sqrt(a*a + b*b + c*c) of fixed-point a, b, c.  Components too large
\* for their squares to fit the integer width are scaled down first and the
\* root scaled back, as a floating-point exponent would.
Hypot(a, b, c) ==
    IF IsNaN(a) \/ IsNaN(b) \/ IsNaN(c) THEN NaN
    ELSE HypotScaled(a, b, c, (Max2(Abs(a), Max2(Abs(b), Abs(c))) \div 26000) + 1)

\* a*a + b*b > limit*limit, exactly, without forming an oversized square
SumSqGt(a, b, limit) ==
    /\ ~IsNaN(a)
    /\ ~IsNaN(b)
    /\ \/ Abs(a) > limit
       \/ Abs(b) > limit
       \/ a * a > limit * limit - b * b

\* Math.cos / Math.sin of r * 2 * PI for a draw r that is a multiple of an
\* eighth of a turn
EighthTurn == Unit \div 8

CosTable == <<10000, 7071, 0, -7071, -10000, -7071, 0, 7071>>

SinTable == <<0, 7071, 10000, 7071, 0, -7071, -10000, -7071>>

CosTurn(r) == CosTable[(r \div EighthTurn) + 1]

SinTurn(r) == SinTable[(r \div EighthTurn) + 1]

\* ------------------------------------------------------------------- state
VARIABLES
    particleCount,  \* the argument the Physics was constructed with
    count,          \* Physics.count
    positions,      \* Physics.positions, a flat array of 3 * count numbers
    velocities,     \* Physics.velocities, likewise
    masses,         \* Physics.masses
    lifetimes,      \* Physics.lifetimes
    G,              \* Physics.G, in units of 1 / (100 * Unit)
    drag,           \* Physics.drag, in thousandths
    chaosMode,      \* Physics.chaosMode
    chaosFactor,    \* Physics.chaosFactor
    attractMode,    \* Physics.attractMode
    now,            \* Date.now(), in milliseconds
    steps,          \* number of operations performed so far
    last,           \* the last Physics call: its arguments, the state it
                    \* started from and what it computed on the way
    rawHands,       \* HandTracker.rawHands
    hands,          \* HandTracker.hands, the smoothed hands
    prevGestures,   \* HandTracker.prevGestures
    gestureEvents,  \* HandTracker.gestureEvents
    prevHands,      \* HandTracker._prevHands
    detected,       \* number of gesture events detectGestureEvents has pushed
    applied,        \* number of applyExplosion / applyImplosion calls of animate
    fresh,          \* onResults has run since the last animation frame
    staleApplied,   \* some frame applied an impulse with no onResults since
                    \* the frame before it
    currentMode,    \* GameMode.currentMode
    drawPath,       \* GameMode.drawPath, points [x, y, time], oldest first
    score,          \* GameMode.score
    combo,          \* GameMode.combo
    comboTimer,     \* GameMode.comboTimer
    highScore,      \* GameMode.highScore
    storage,        \* the localStorage item 'gravitySculptor_highScore'
    challengeActive,    \* GameMode.challengeActive
    challengeTimer,     \* GameMode.challengeTimer
    challengeGoal,      \* GameMode.challengeGoal, in percent
    challengeProgress,  \* GameMode.challengeProgress, in percent
    lastOrbitCheck, \* GameMode.lastOrbitCheck
    called,         \* the last GameMode call: its arguments, the time, the
                    \* fields it started from and what it returned
    appChaosMode,   \* GravitySculptor.chaosMode
    isMouseDrawing, \* GravitySculptor.isMouseDrawing
    initialized,    \* GravitySculptor.init has created the modules
    isRunning,      \* GravitySculptor.isRunning
    pending,        \* animation frames requested and not yet run
    hidden          \* document.hidden

physicsVars ==
    <<particleCount, count, positions, velocities, masses, lifetimes, G, drag,
      chaosMode, chaosFactor, attractMode>>

trackerVars == <<rawHands, hands, prevGestures, gestureEvents, prevHands>>

frameVars == <<detected, applied, fresh, staleApplied>>

gameVars ==
    <<currentMode, drawPath, score, combo, comboTimer, highScore, storage,
      challengeActive, challengeTimer, challengeGoal, challengeProgress,
      lastOrbitCheck, called>>

appVars == <<appChaosMode, isMouseDrawing, initialized, isRunning, pending, hidden>>

vars == <<physicsVars, now, steps, last, trackerVars, frameVars, gameVars, appVars>>

\* --------------------------------------------------------- Physics constants
GScale == 100 * Unit

DragScale == Unit \div 10

DtScale == Unit \div 100

maxVelocity == (8 * Unit) \div 100

minDistance == (5 * Unit) \div 100

fieldRadius == (25 * Unit) \div 10

boundaryRadius == 4 * Unit

lifetimeStep == Unit \div 1000

\* -------------------------------------------------------- array plumbing
Particles == 1..count

\* the three components of particle i in a flat array
Vec(arr, i) == <<arr[3 * (i - 1) + 1], arr[3 * (i - 1) + 2], arr[3 * (i - 1) + 3]>>

\* the flat array holding vecs[i] for each particle i of 1..n
RECURSIVE Flat(_, _)
Flat(vecs, n) == IF n = 0 THEN <<>> ELSE Flat(vecs, n - 1) \o vecs[n]

\* the array <<f[1], ..., f[n]>>
RECURSIVE Each(_, _)
Each(f, n) == IF n = 0 THEN <<>> ELSE Append(Each(f, n - 1), f[n])

\* what `last` holds when the call did not compute it
NoCall ==
    [wells |-> <<>>, handVelocities |-> <<>>, dt |-> 0, pathForces |-> <<>>,
     x |-> 0, y |-> 0, strength |-> 0,
     effective |-> <<>>, g |-> 0, acc |-> <<>>, escaped |-> {}]

Snapshot ==
    [count |-> count, positions |-> positions, velocities |-> velocities,
     masses |-> masses, lifetimes |-> lifetimes, chaosMode |-> chaosMode,
     attractMode |-> attractMode]

\* --------------------------------------------------- Physics.initParticles
\* The draws of Math.random(), each in [0, Unit): one record per particle.
SpawnDraws ==
    { [angle |-> 0, radius |-> 0, vx |-> 9999, vy |-> 5000, vz |-> 5000,
       mass |-> 0, life |-> 9995],
      [angle |-> 0, radius |-> 9200, vx |-> 9999, vy |-> 5000, vz |-> 5000,
       mass |-> 9999, life |-> 0] }

SpawnAt(angle, radius) ==
    <<FMul(CosTurn(angle), radius), FScale(FMul(SinTurn(angle), radius), 8, 10), 0>>

SpawnPosition(d) == SpawnAt(d.angle, FScale(d.radius, 15, 10))

SpawnVelocity(d) ==
    <<FScale(d.vx - (Unit \div 2), 1, 1000),
      FScale(d.vy - (Unit \div 2), 1, 1000),
      FScale(d.vz - (Unit \div 2), 2, 10000)>>

SpawnMass(d) == (Unit \div 2) + FScale(d.mass, 5, 10)

SpawnLifetime(d) == d.life

\* Fault injection: a seeding loop that stops one particle short.
initParticlesShort(n, draws) ==
    [positions |-> Flat([i \in 1..n |-> SpawnPosition(draws[i])], n - 1),
     velocities |-> Flat([i \in 1..n |-> SpawnVelocity(draws[i])], n - 1),
     masses |-> Each([i \in 1..n |-> SpawnMass(draws[i])], n - 1),
     lifetimes |-> Each([i \in 1..n |-> SpawnLifetime(draws[i])], n - 1)]

\* the arrays initParticles leaves, given the draws of each particle
initParticles(n, draws) ==
    [positions |-> Flat([i \in 1..n |-> SpawnPosition(draws[i])], n),
     velocities |-> Flat([i \in 1..n |-> SpawnVelocity(draws[i])], n),
     masses |-> Each([i \in 1..n |-> SpawnMass(draws[i])], n),
     lifetimes |-> Each([i \in 1..n |-> SpawnLifetime(draws[i])], n)]

StartTime == 10 * 1000

InitArrays(a) ==
    /\ positions = a.positions
    /\ velocities = a.velocities
    /\ masses = a.masses
    /\ lifetimes = a.lifetimes

\* ---------------------------------------------------------------- GameMode
pathMaxLength == 3 * 100

pathFadeTime == 8 * 1000

comboTimeout == 2 * 1000

challengeDuration == 30 * 1000

orbitCheckMs == 5 * 100

centerRadius == Unit \div 2

edgeRadius == (15 * Unit) \div 10

\* Number.prototype.toString of an integer n >= 0: its decimal digits
RECURSIVE toString(_)
toString(n) == IF n < 10 THEN <<n>> ELSE Append(toString(n \div 10), n % 10)

\* parseInt of the first k characters of a string of decimal digits
RECURSIVE ParseDigits(_, _)
ParseDigits(text, k) ==
    IF k = 0 THEN 0 ELSE 10 * ParseDigits(text, k - 1) + text[k]

\* parseInt of a string of decimal digits, NaN for the empty string
parseInt(text) == IF Len(text) = 0 THEN NaN ELSE ParseDigits(text, Len(text))

\* localStorage without the item, and with the item set to text
NoItem == [present |-> FALSE, text |-> <<>>]

setItem(text) == [present |-> TRUE, text |-> text]

\* localStorage.getItem('gravitySculptor_highScore') || '0'
getItemOrZero(item) ==
    IF item.present /\ Len(item.text) > 0 THEN item.text ELSE <<0>>

\* the fields of the GameMode, as a record
Fields(g) ==
    [currentMode |-> g.currentMode, drawPath |-> g.drawPath, score |-> g.score,
     combo |-> g.combo, comboTimer |-> g.comboTimer, highScore |-> g.highScore,
     storage |-> g.storage, challengeActive |-> g.challengeActive,
     challengeTimer |-> g.challengeTimer, challengeGoal |-> g.challengeGoal,
     challengeProgress |-> g.challengeProgress, lastOrbitCheck |-> g.lastOrbitCheck]

\* the GameMode the variables hold
Game ==
    [currentMode |-> currentMode, drawPath |-> drawPath, score |-> score,
     combo |-> combo, comboTimer |-> comboTimer, highScore |-> highScore,
     storage |-> storage, challengeActive |-> challengeActive,
     challengeTimer |-> challengeTimer, challengeGoal |-> challengeGoal,
     challengeProgress |-> challengeProgress, lastOrbitCheck |-> lastOrbitCheck,
     called |-> called]

\* new GameMode(), with localStorage holding item
NewGame(item) ==
    [currentMode |-> "free", drawPath |-> <<>>, score |-> 0, combo |-> 1,
     comboTimer |-> 0, highScore |-> parseInt(getItemOrZero(item)),
     storage |-> item, challengeActive |-> FALSE, challengeTimer |-> 0,
     challengeGoal |-> 0, challengeProgress |-> 0, lastOrbitCheck |-> 0,
     called |-> [op |-> "constructor", args |-> <<>>, time |-> 0, result |-> <<>>]]

\* the GameMode post, recorded as returned by the call op(args) made on g at
\* time t
Call(g, op, args, t, post, result) ==
    [post EXCEPT !.called = [op |-> op, args |-> args, time |-> t,
                             pre |-> Fields(g), result |-> result]]

\* Fault injection: a new high score that is not written to localStorage.
ScoredUnsaved(g, s, c, t) ==
    [g EXCEPT !.combo = c, !.score = s, !.comboTimer = t,
              !.highScore = IF s > g.highScore THEN s ELSE @]

\* addScore once the combo c that applies and the new score s are known
Scored(g, s, c, t) ==
    [g EXCEPT !.combo = c, !.score = s, !.comboTimer = t,
              !.highScore = IF s > g.highScore THEN s ELSE @,
              !.storage = IF s > g.highScore THEN setItem(toString(s)) ELSE @]

ScoreBy(g, points, c, t) == Scored(g, g.score + points * c, c, t)

\* Fault injection: a combo that outlives its timeout.
ExpireKept(g, t) == g.combo

\* the combo after `if (now - this.comboTimer > this.comboTimeout)`
Expire(g, t) == IF t - g.comboTimer > comboTimeout THEN 1 ELSE g.combo

\* GameMode.addScore(points) at time t
addScore(g, points, t) ==
    Call(g, "addScore", <<points>>, t, ScoreBy(g, points, Expire(g, t), t),
         <<g.score + points * Expire(g, t)>>)

\* Fault injection: a combo multiplier without its cap.
increaseComboUncapped(g, t) ==
    Call(g, "increaseCombo", <<>>, t,
         [g EXCEPT !.combo = @ + 1, !.comboTimer = t], <<g.combo + 1>>)

\* GameMode.increaseCombo()
increaseCombo(g, t) ==
    Call(g, "increaseCombo", <<>>, t,
         [g EXCEPT !.combo = Min2(@ + 1, 10), !.comboTimer = t],
         <<Min2(g.combo + 1, 10)>>)

\* GameMode.resetScore()
resetScore(g, t) ==
    Call(g, "resetScore", <<>>, t, [g EXCEPT !.score = 0, !.combo = 1], <<>>)

\* Fault injection: a path that grows without limit.
PushedUnlimited(path) == path

\* the path after `if (this.drawPath.length > this.pathMaxLength) shift()`
Pushed(path) == IF Len(path) > pathMaxLength THEN Tail(path) ELSE path

\* GameMode.addDrawPoint(x, y)
addDrawPoint(g, x, y, t) ==
    Call(g, "addDrawPoint", <<x, y>>, t,
         addScore([g EXCEPT !.drawPath =
                       Pushed(Append(@, [x |-> x, y |-> y, time |-> t]))], 1, t),
         <<>>)

\* Fault injection: a path that keeps its faded points.
ActiveUnfiltered(path, t) == path

\* drawPath.filter(p => now - p.time < pathFadeTime)
Active(path, t) == SelectSeq(path, LAMBDA p : t - p.time < pathFadeTime)

\* GameMode.getActivePath()
getActivePath(g, t) ==
    Call(g, "getActivePath", <<>>, t, [g EXCEPT !.drawPath = Active(@, t)],
         Active(g.drawPath, t))

\* GameMode.clearPath()
clearPath(g, t) ==
    Call(g, "clearPath", <<>>, t, [g EXCEPT !.drawPath = <<>>], <<>>)

\* GameMode.setMode(mode)
setMode(g, mode, t) ==
    Call(g, "setMode", <<mode>>, t,
         IF mode # "draw" THEN clearPath([g EXCEPT !.currentMode = mode], t)
         ELSE [g EXCEPT !.currentMode = mode],
         <<>>)

ChallengeTypes == {"collect", "disperse", "balance"}

\* the goal startChallenge sets, in percent
Goal(type, old) ==
    IF type = "collect" THEN 80 * Unit
    ELSE IF type = "disperse" THEN 70 * Unit
    ELSE IF type = "balance" THEN 60 * Unit
    ELSE old

\* GameMode.startChallenge(type)
startChallenge(g, type, t) ==
    Call(g, "startChallenge", <<type>>, t,
         [g EXCEPT !.currentMode = type, !.challengeActive = TRUE,
                   !.challengeTimer = t, !.challengeProgress = 0,
                   !.challengeGoal = Goal(type, @)],
         <<>>)

\* GameMode.endChallenge(success)
endChallenge(g, success, t) ==
    Call(g, "endChallenge", <<success>>, t,
         [(IF success THEN addScore(g, 500 * g.combo, t) ELSE g)
             EXCEPT !.challengeActive = FALSE, !.currentMode = "free"],
         <<>>)

\* x*x + y*y < limit*limit, FALSE when a coordinate is NaN
SumSqLt(a, b, limit) ==
    /\ ~IsNaN(a)
    /\ ~IsNaN(b)
    /\ Abs(a) < limit
    /\ Abs(b) < limit
    /\ a * a < limit * limit - b * b

\* the particles updateChallenge counts as central and as at the edge
CenterCount(particles, n) ==
    Cardinality({i \in 1..n : SumSqLt(Vec(particles, i)[1], Vec(particles, i)[2],
                                      centerRadius)})

EdgeCount(particles, n) ==
    Cardinality({i \in 1..n : SumSqGt(Vec(particles, i)[1], Vec(particles, i)[2],
                                      edgeRadius)})

\* the quadrant updateChallenge counts a particle at (x, y) in: NaN fails
\* every comparison and lands in the last
Quadrant(x, y) ==
    IF IsNaN(x) \/ IsNaN(y) THEN 4
    ELSE IF x >= 0 /\ y >= 0 THEN 1
    ELSE IF x < 0 /\ y >= 0 THEN 2
    ELSE IF x < 0 /\ y < 0 THEN 3
    ELSE 4

QuadrantCount(particles, n, q) ==
    Cardinality({i \in 1..n : Quadrant(Vec(particles, i)[1], Vec(particles, i)[2]) = q})

\* the sum over the quadrants of |q - count / 4|, times 4
Imbalance(particles, n) ==
    Abs(4 * QuadrantCount(particles, n, 1) - n)
    + Abs(4 * QuadrantCount(particles, n, 2) - n)
    + Abs(4 * QuadrantCount(particles, n, 3) - n)
    + Abs(4 * QuadrantCount(particles, n, 4) - n)

\* the progress the switch on currentMode computes, in percent; a mode that
\* is no challenge type leaves the progress as it was
Progress(g, particles, n) ==
    IF g.currentMode = "collect" THEN Quot(CenterCount(particles, n) * 100 * Unit, n)
    ELSE IF g.currentMode = "disperse" THEN Quot(EdgeCount(particles, n) * 100 * Unit, n)
    ELSE IF g.currentMode = "balance"
         THEN Max2(0, 100 * Unit - Quot(Imbalance(particles, n) * 50 * Unit, n))
    ELSE g.challengeProgress

\* the GameMode once the progress is stored: points and combo at the goal
Progressed(g, progress, t) ==
    IF progress >= g.challengeGoal
    THEN increaseCombo(addScore([g EXCEPT !.challengeProgress = progress], 10, t), t)
    ELSE [g EXCEPT !.challengeProgress = progress]

\* Fault injection: a challenge that runs past its duration.
TimeUpNever(g, t) == FALSE

\* remaining <= 0, remaining = Math.max(0, challengeDuration - elapsed)
TimeUp(g, t) == Max2(0, challengeDuration - (t - g.challengeTimer)) <= 0

\* GameMode.updateChallenge(particles, count)
updateChallenge(g, particles, n, t) ==
    IF ~g.challengeActive
    THEN Call(g, "updateChallenge", <<>>, t, g, [null |-> TRUE])
    ELSE IF TimeUp(g, t)
    THEN Call(g, "updateChallenge", <<>>, t,
              endChallenge(g, g.challengeProgress >= g.challengeGoal, t),
              [null |-> FALSE, completed |-> TRUE,
               success |-> g.challengeProgress >= g.challengeGoal])
    ELSE Call(g, "updateChallenge", <<>>, t,
              Progressed(g, Progress(g, particles, n), t),
              [null |-> FALSE, completed |-> FALSE,
               progress |-> Progress(g, particles, n)])

\* dist > 0.3, speed > 0.001 and |dot product| / (dist * speed) < 0.3
Perpendicular(x, y, vx, vy, dist, speed) ==
    /\ FGt(dist, (3 * Unit) \div 10)
    /\ FGt(speed, Unit \div 1000)
    /\ 10 * Abs(x * vx + y * vy) < 3 * dist * speed

Orbiting(p, v) == Perpendicular(p[1], p[2], v[1], v[2], Hypot(p[1], p[2], 0),
                                Hypot(v[1], v[2], 0))

OrbitingCount(pos, vel, n) ==
    Cardinality({i \in 1..n : Orbiting(Vec(pos, i), Vec(vel, i))})

\* the points and the combo for k orbiting particles of n
Orbits(g, k, n, t) ==
    IF 10 * k > 3 * n
    THEN IF 2 * k > n THEN increaseCombo(addScore(g, (10 * k) \div n, t), t)
         ELSE addScore(g, (10 * k) \div n, t)
    ELSE g

\* GameMode.detectOrbits(positions, velocities, count)
detectOrbits(g, pos, vel, n, t) ==
    IF t - g.lastOrbitCheck < orbitCheckMs
    THEN Call(g, "detectOrbits", <<>>, t, g, <<0>>)
    ELSE Call(g, "detectOrbits", <<>>, t,
              Orbits([g EXCEPT !.lastOrbitCheck = t], OrbitingCount(pos, vel, n), n, t),
              <<OrbitingCount(pos, vel, n)>>)

\* the variables take the fields of g
StoreGame(g) ==
    /\ currentMode' = g.currentMode
    /\ drawPath' = g.drawPath
    /\ score' = g.score
    /\ combo' = g.combo
    /\ comboTimer' = g.comboTimer
    /\ highScore' = g.highScore
    /\ storage' = g.storage
    /\ challengeActive' = g.challengeActive
    /\ challengeTimer' = g.challengeTimer
    /\ challengeGoal' = g.challengeGoal
    /\ challengeProgress' = g.challengeProgress
    /\ lastOrbitCheck' = g.lastOrbitCheck
    /\ called' = g.called

InitGame(g) ==
    /\ currentMode = g.currentMode
    /\ drawPath = g.drawPath
    /\ score = g.score
    /\ combo = g.combo
    /\ comboTimer = g.comboTimer
    /\ highScore = g.highScore
    /\ storage = g.storage
    /\ challengeActive = g.challengeActive
    /\ challengeTimer = g.challengeTimer
    /\ challengeGoal = g.challengeGoal
    /\ challengeProgress = g.challengeProgress
    /\ lastOrbitCheck = g.lastOrbitCheck
    /\ called = g.called

\* GravitySculptor.init has run: the modules exist, the loop is started and
\* one animation frame is requested
InitApp ==
    /\ appChaosMode = FALSE
    /\ isMouseDrawing = FALSE
    /\ initialized = TRUE
    /\ isRunning = TRUE
    /\ pending = 1
    /\ hidden = FALSE

\* new HandTracker()
InitTracker ==
    /\ rawHands = <<>>
    /\ hands = <<>>
    /\ prevGestures = <<>>
    /\ gestureEvents = <<>>
    /\ prevHands = <<>>

InitFrames ==
    /\ detected = 0
    /\ applied = 0
    /\ fresh = FALSE
    /\ staleApplied = FALSE

\* new Physics(n): the fields, then initParticles()
InitPhysics ==
    /\ particleCount \in 1..MaxParticles
    /\ count = particleCount
    /\ \E draws \in [1..particleCount -> SpawnDraws] :
          InitArrays(initParticles(particleCount, draws))
    /\ G = 150
    /\ drag = 995
    /\ chaosMode = FALSE
    /\ chaosFactor = 1
    /\ attractMode = TRUE
    /\ now = StartTime
    /\ steps = 0
    /\ last = [op |-> "constructor", pre |-> <<>>] @@ NoCall

\* GravitySculptor.init: new Physics(particleCount), new HandTracker(),
\* new GameMode() on a first visit, the animation loop started
Init == InitPhysics /\ InitTracker /\ InitFrames /\ InitGame(NewGame(NoItem)) /\ InitApp

\* Fault injection: a seeding loop that leaves the velocity array alone.
StoreArraysKeepVelocity(a) ==
    /\ positions' = a.positions
    /\ velocities' = velocities
    /\ masses' = a.masses
    /\ lifetimes' = a.lifetimes

StoreArrays(a) ==
    /\ positions' = a.positions
    /\ velocities' = a.velocities
    /\ masses' = a.masses
    /\ lifetimes' = a.lifetimes

InitParticles ==
    /\ steps < MaxSteps
    /\ \E draws \in [Particles -> SpawnDraws] : StoreArrays(initParticles(count, draws))
    /\ last' = [op |-> "initParticles", pre |-> Snapshot] @@ NoCall
    /\ steps' = steps + 1
    /\ UNCHANGED <<particleCount, count, G, drag, chaosMode, chaosFactor, attractMode, now>>
    /\ UNCHANGED <<trackerVars, frameVars, gameVars, appVars>>

\* Draws of Math.random() over the whole circle and at the ends of each range.
SeedDraws ==
    << [angle |-> EighthTurn, radius |-> 9999, vx |-> 0, vy |-> 9999, vz |-> 0,
        mass |-> 0, life |-> 0],
       [angle |-> 2 * EighthTurn, radius |-> 9999, vx |-> 9999, vy |-> 0,
        vz |-> 9999, mass |-> 9999, life |-> 9999],
       [angle |-> 3 * EighthTurn, radius |-> 5000, vx |-> 5000, vy |-> 5000,
        vz |-> 5000, mass |-> 5000, life |-> 5000],
       [angle |-> 4 * EighthTurn, radius |-> 9999, vx |-> 9999, vy |-> 9999,
        vz |-> 0, mass |-> 9999, life |-> 0],
       [angle |-> 6 * EighthTurn, radius |-> 9999, vx |-> 0, vy |-> 0,
        vz |-> 9999, mass |-> 0, life |-> 9999],
       [angle |-> 0, radius |-> 0, vx |-> 5000, vy |-> 5000, vz |-> 5000,
        mass |-> 5000, life |-> 5000] >>

\* particle i takes the draws SeedDraws[k + i], cyclically
SeedFrom(k) ==
    [i \in Particles |-> SeedDraws[((k + i) % Len(SeedDraws)) + 1]]

\* GravitySculptor.resetParticles: physics.initParticles()
ResetParticles ==
    /\ steps < MaxSteps
    /\ \E k \in 1..Len(SeedDraws) : StoreArrays(initParticles(count, SeedFrom(k)))
    /\ last' = [op |-> "initParticles", pre |-> Snapshot] @@ NoCall
    /\ steps' = steps + 1
    /\ UNCHANGED <<particleCount, count, G, drag, chaosMode, chaosFactor, attractMode, now>>
    /\ UNCHANGED <<trackerVars, frameVars, gameVars, appVars>>

\* ------------------------------------------------- Physics.toggleChaosMode
ToggleChaosMode ==
    /\ steps < MaxSteps
    /\ chaosMode' = ~chaosMode
    /\ chaosFactor' = IF chaosMode' THEN 3 ELSE 1
    /\ last' = [op |-> "toggleChaosMode", pre |-> Snapshot] @@ NoCall
    /\ steps' = steps + 1
    /\ UNCHANGED <<particleCount, count, positions, velocities, masses, lifetimes,
                   G, drag, attractMode, now>>
    /\ UNCHANGED <<trackerVars, frameVars, gameVars, appVars>>

\* ---------------------------------------------------------- Physics.update
\* handVelocities[idx]?.vx || 0
Component(entry, name) ==
    IF name \in DOMAIN entry THEN entry[name] ELSE 0

\* Fault injection: a well past the end of the list takes the last entry.
HandVelocityRepeated(handVelocities, idx) ==
    IF handVelocities = <<>>
    THEN [vx |-> 0, vy |-> 0]
    ELSE [vx |-> Component(handVelocities[Min2(idx, Len(handVelocities))], "vx"),
          vy |-> Component(handVelocities[Min2(idx, Len(handVelocities))], "vy")]

HandVelocity(handVelocities, idx) ==
    IF idx <= Len(handVelocities)
    THEN [vx |-> Component(handVelocities[idx], "vx"),
          vy |-> Component(handVelocities[idx], "vy")]
    ELSE [vx |-> 0, vy |-> 0]

\* wells: the supplied wells converted from normalized to world space
ScaleWells(gravityWells, handVelocities) ==
    [idx \in 1..Len(gravityWells) |->
        [x |-> FScale(gravityWells[idx].x, 15, 10),
         y |-> FScale(gravityWells[idx].y, 12, 10),
         z |-> FScale(gravityWells[idx].z, 5, 10),
         strength |-> gravityWells[idx].strength,
         vx |-> HandVelocity(handVelocities, idx).vx,
         vy |-> HandVelocity(handVelocities, idx).vy]]

mergeDistance == Unit \div 2

\* 1 - (dist / 0.5)
MergeFactor(dist) == FSub(Unit, FDiv(dist, mergeDistance))

\* Fault injection: a merge that only adds the two strengths.
MergedStrengthPlain(s0, s1, dist) == s0 + s1

\* (s0 + s1) * (1 + mergeFactor * 0.5)
MergedStrength(s0, s1, dist) == FMul(s0 + s1, Unit + FScale(MergeFactor(dist), 5, 10))

\* the well two wells at planar distance dist merge into
MergedWell(w0, w1, dist) ==
    [x |-> Quot(w0.x + w1.x, 2),
     y |-> Quot(w0.y + w1.y, 2),
     z |-> Quot(w0.z + w1.z, 2),
     strength |-> MergedStrength(w0.strength, w1.strength, dist),
     vx |-> Quot(w0.vx + w1.vx, 2),
     vy |-> Quot(w0.vy + w1.vy, 2)]

MergeWithin(wells, dist) ==
    IF FLt(dist, mergeDistance) THEN <<MergedWell(wells[1], wells[2], dist)>> ELSE wells

\* Fault injection: the first two wells merge whenever they are close,
\* however many wells there are.
EffectiveWellsFirstPair(wells) ==
    IF Len(wells) >= 2
    THEN MergeWithin(wells, Hypot(wells[1].x - wells[2].x, wells[1].y - wells[2].y, 0))
    ELSE wells

\* mergedWell ? [mergedWell] : wells
EffectiveWells(wells) ==
    IF Len(wells) = 2
    THEN MergeWithin(wells, Hypot(wells[1].x - wells[2].x, wells[1].y - wells[2].y, 0))
    ELSE wells

\* Fault injection: G scaled by the chaos factor alone.
EffectiveGByFactor == G * (IF chaosMode THEN chaosFactor ELSE 1)

\* G * (chaosMode ? chaosFactor * 2 : 1)
EffectiveG == G * (IF chaosMode THEN chaosFactor * 2 ELSE 1)

\* (G * strength) / (softDist * softDist), in fixed point
GravityForce(g, strength, softDist) ==
    Quot(g * strength, Quot(softDist * softDist, GScale \div Unit))

\* d * invDist * force with invDist = 1 / dist.  dist is 0 only when the
\* displacement is 0 on every axis: invDist is then Infinity and
\* 0 * Infinity is NaN.
Along(d, dist, force) ==
    IF IsNaN(d) \/ IsNaN(dist) \/ IsNaN(force) THEN NaN
    ELSE IF dist = 0 THEN NaN
    ELSE Quot(d * force, dist)

slingshotSpeed == Unit \div 100

slingshotRadius == Unit \div 2

\* handSpeed * 0.5 * (1 - dist / 0.5)
SlingshotForce(handSpeed, dist) ==
    FMul(FScale(handSpeed, 5, 10), FSub(Unit, FDiv(dist, slingshotRadius)))

\* Fault injection: a slingshot without the handSpeed factor.
SlingshotLinear(v, handSpeed, dist) ==
    IF FGt(handSpeed, slingshotSpeed) /\ FLt(dist, slingshotRadius)
    THEN FMul(v, FScale(FSub(Unit, FDiv(dist, slingshotRadius)), 5, 10))
    ELSE 0

\* what the slingshot adds along one axis, v the well's velocity on it
Slingshot(v, handSpeed, dist) ==
    IF FGt(handSpeed, slingshotSpeed) /\ FLt(dist, slingshotRadius)
    THEN FMul(v, SlingshotForce(handSpeed, dist))
    ELSE 0

WellPull(well, dx, dy, dz, dist, force, direction, handSpeed) ==
    <<FAdd(FScale(Along(dx, dist, force), direction, 1), Slingshot(well.vx, handSpeed, dist)),
      FAdd(FScale(Along(dy, dist, force), direction, 1), Slingshot(well.vy, handSpeed, dist)),
      FScale(Along(dz, dist, force), direction, 1)>>

\* Fault injection: a pull toward the well in either mode.
WellReachAttracting(well, dx, dy, dz, dist, g, attract) ==
    IF FLt(dist, fieldRadius)
    THEN WellPull(well, dx, dy, dz, dist,
                  GravityForce(g, well.strength, Max2(dist, minDistance)),
                  1,
                  Hypot(well.vx, well.vy, 0))
    ELSE <<0, 0, 0>>

WellReach(well, dx, dy, dz, dist, g, attract) ==
    IF FLt(dist, fieldRadius)
    THEN WellPull(well, dx, dy, dz, dist,
                  GravityForce(g, well.strength, Max2(dist, minDistance)),
                  IF attract THEN 1 ELSE -1,
                  Hypot(well.vx, well.vy, 0))
    ELSE <<0, 0, 0>>

WellOffset(well, dx, dy, dz, g, attract) ==
    WellReach(well, dx, dy, dz, Hypot(dx, dy, dz), g, attract)

\* what one well adds to (ax, ay, az) of a particle at p
WellAcceleration(well, p, g, attract) ==
    WellOffset(well, FSub(well.x, p[1]), FSub(well.y, p[2]), FSub(well.z, p[3]), g, attract)

pathFadeMs == 8 * 1000

pathRange == (6 * Unit) \div 10

pathMinRange == Unit \div 100

pathSoftening == (3 * Unit) \div 100

PathPull(dx, dy, dist, force) == <<Quot(dx * force, dist), Quot(dy * force, dist), 0>>

\* strength is (1 - age) * 0.0005 in units of 1 / Unit^2
PathReach(dx, dy, dist, strength) ==
    IF FLt(dist, pathRange) /\ FGt(dist, pathMinRange)
    THEN PathPull(dx, dy, dist, Quot(strength, dist + pathSoftening))
    ELSE <<0, 0, 0>>

\* Fault injection: a path whose points never fade out.
PathOffsetUnfaded(dx, dy, age) ==
    PathReach(dx, dy, Hypot(dx, dy, 0), (Unit - age) * 5)

PathOffset(dx, dy, age) ==
    IF age < Unit THEN PathReach(dx, dy, Hypot(dx, dy, 0), (Unit - age) * 5) ELSE <<0, 0, 0>>

\* what one path point adds to (ax, ay, az) of a particle at p, at time t
PathAcceleration(point, p, t) ==
    PathOffset(FSub(point.x, p[1]), FSub(point.y, p[2]),
               Quot((t - point.time) * Unit, pathFadeMs))

VAdd(a, b) == <<FAdd(a[1], b[1]), FAdd(a[2], b[2]), FAdd(a[3], b[3])>>

\* the sum of f[1..n], each a vector
RECURSIVE VSum(_, _)
VSum(f, n) == IF n = 0 THEN <<0, 0, 0>> ELSE VAdd(VSum(f, n - 1), f[n])

\* (Math.random() - 0.5) * 0.0002 on x and y, in chaos mode
Turbulence(d) ==
    <<FScale(d.jx - (Unit \div 2), 2, Unit), FScale(d.jy - (Unit \div 2), 2, Unit), 0>>

\* (ax, ay, az) of a particle at p
Acceleration(effective, pathForces, p, d) ==
    VAdd(VAdd(VSum([k \in 1..Len(effective) |->
                       WellAcceleration(effective[k], p, EffectiveG, attractMode)],
                   Len(effective)),
              VSum([k \in 1..Len(pathForces) |-> PathAcceleration(pathForces[k], p, now)],
                   Len(pathForces))),
         IF chaosMode THEN Turbulence(d) ELSE <<0, 0, 0>>)

\* Fault injection: dividing by the drag instead of multiplying by it.
DampInverse(v) == FScale(v, DragScale, drag)

\* v * drag
Damp(v) == FScale(v, drag, DragScale)

\* velocities[i3] = (velocities[i3] + ax * dt) * drag, on each axis
IntegrateVelocity(v, a, dt) ==
    <<Damp(FAdd(v[1], FScale(a[1], dt, DtScale))),
      Damp(FAdd(v[2], FScale(a[2], dt, DtScale))),
      Damp(FAdd(v[3], FScale(a[3], dt, DtScale)))>>

Rescale(v, speed) ==
    IF FGt(speed, maxVelocity)
    THEN <<FScale(v[1], maxVelocity, speed),
           FScale(v[2], maxVelocity, speed),
           FScale(v[3], maxVelocity, speed)>>
    ELSE v

\* if (speed > maxV) rescale by maxV / speed
ClampVelocity(v) == Rescale(v, Hypot(v[1], v[2], v[3]))

\* positions[i3] += velocities[i3] * dt, on each axis
IntegratePosition(p, v, dt) ==
    <<FAdd(p[1], FScale(v[1], dt, DtScale)),
      FAdd(p[2], FScale(v[2], dt, DtScale)),
      FAdd(p[3], FScale(v[3], dt, DtScale))>>

\* px * px + py * py > 16
OutOfBounds(p) == SumSqGt(p[1], p[2], boundaryRadius)

RespawnAt(d, radius) ==
    [pos |-> <<FMul(CosTurn(d.angle), radius),
               FMul(SinTurn(d.angle), radius),
               FScale(d.z - (Unit \div 2), 1, 10)>>,
     vel |-> <<FScale(d.vx - (Unit \div 2), 1, 100),
               FScale(d.vy - (Unit \div 2), 1, 100),
               0>>,
     life |-> 0]

\* Fault injection: a respawn radius of 0.1 + Math.random() * 0.5.
respawnParticleWide(d) == RespawnAt(d, (Unit \div 10) + FScale(d.radius, 5, 10))

\* Physics.respawnParticle: the position, velocity and lifetime it assigns
respawnParticle(d) == RespawnAt(d, (Unit \div 10) + FScale(d.radius, 3, 10))

\* Fault injection: a lifetime that is not saturated.
AdvanceLifetimeUnbounded(life) == life + lifetimeStep

\* Math.min(1, lifetime + 0.001)
AdvanceLifetime(life) == Min2(Unit, life + lifetimeStep)

\* the end of one iteration: respawn if out of bounds, then the lifetime
Settle(a, v1, p1, life, out, r) ==
    [acc |-> a,
     escaped |-> out,
     pos |-> IF out THEN r.pos ELSE p1,
     vel |-> IF out THEN r.vel ELSE v1,
     life |-> AdvanceLifetime(IF out THEN r.life ELSE life)]

Place(a, v1, p1, life, d) == Settle(a, v1, p1, life, OutOfBounds(p1), respawnParticle(d))

Move(a, v1, p, life, dt, d) == Place(a, v1, IntegratePosition(p, v1, dt), life, d)

Accelerate(a, p, v, life, dt, d) == Move(a, ClampVelocity(IntegrateVelocity(v, a, dt)), p, life, dt, d)

\* one iteration of the particle loop of update, for a particle at p moving
\* at v with lifetime life; d holds the draws of Math.random() it may use
UpdateParticle(effective, pathForces, dt, p, v, life, d) ==
    Accelerate(Acceleration(effective, pathForces, p, d), p, v, life, dt, d)

\* The draws one particle may use in one update: the chaos jitter (jx, jy)
\* and the respawn draws.
FrameDraws ==
    << [jx |-> 0, jy |-> 0, angle |-> 0, radius |-> 0, z |-> 5000, vx |-> 0, vy |-> 0],
       [jx |-> 9999, jy |-> 9999, angle |-> 2500, radius |-> 9999, z |-> 0,
        vx |-> 9999, vy |-> 9999] >>

\* The calls of update explored.  Wells are in normalized coordinates, as the
\* hand tracker supplies them; path points are in world coordinates.
OneWell == << [x |-> 0, y |-> 0, z |-> 0, strength |-> Unit] >>

\* two wells 0.2 apart as supplied, 0.3 apart in world space
NearPair ==
    << [x |-> 0 - (Unit \div 10), y |-> 0, z |-> 0, strength |-> Unit],
       [x |-> Unit \div 10, y |-> 0, z |-> 0, strength |-> Unit] >>

\* two wells 0.3 apart as supplied, 0.45 apart in world space
SuppliedPair ==
    << [x |-> 0 - ((15 * Unit) \div 100), y |-> 0, z |-> 0, strength |-> Unit],
       [x |-> (15 * Unit) \div 100, y |-> 0, z |-> 0, strength |-> Unit] >>

\* two wells 0.4 apart as supplied, 0.6 apart in world space
FarPair ==
    << [x |-> 0 - (Unit \div 5), y |-> 0, z |-> 0 - (Unit \div 5), strength |-> Unit \div 2],
       [x |-> Unit \div 5, y |-> 0, z |-> 0 - (Unit \div 5), strength |-> Unit] >>

WellLists == { <<>>, OneWell, NearPair, SuppliedPair, FarPair }

HandVelocityLists ==
    { <<>>,
      << [vx |-> Unit \div 5, vy |-> 0], [vx |-> 0, vy |-> Unit \div 10] >> }

\* update does not clamp dt: a large one carries a moving particle across the
\* boundary in a single call
LongFrame == 400 * DtScale

DtSet == {DtScale, 2 * DtScale, LongFrame}

\* Around the outer particle: a faded point and a fresh one 0.03 away.
\* Around the particle at the origin: a point on it, one 0.01 away, one 0.6
\* away, and one 0.3 away that was drawn this instant.
PathLists ==
    { <<>>,
      << [x |-> 13500, y |-> 0, time |-> StartTime - 9000],
         [x |-> 13500, y |-> 0, time |-> StartTime - 2000],
         [x |-> 0, y |-> 0, time |-> StartTime - 2000],
         [x |-> Unit \div 100, y |-> 0, time |-> StartTime - 2000],
         [x |-> (6 * Unit) \div 10, y |-> 0, time |-> StartTime - 2000],
         [x |-> 0, y |-> (3 * Unit) \div 10, time |-> StartTime] >> }

\* A long frame gap is explored for the force-free call only, a path for the
\* well-free call only, and moving hands for two of the pairs, with dt 2.
UpdateArgs ==
    { a \in [wells : WellLists, handVelocities : HandVelocityLists,
             dt : DtSet, pathForces : PathLists] :
        /\ a.dt = LongFrame => (a.wells = <<>> /\ a.pathForces = <<>>)
        /\ a.pathForces # <<>> => (a.wells = <<>> /\ a.dt = DtScale)
        /\ a.handVelocities # <<>> <=> a.dt = 2 * DtScale
        /\ a.handVelocities # <<>> => a.wells \in {NearPair, FarPair} }

\* outcomes[i][k]: the iteration of particle i, moving as in the array vel,
\* under the draws FrameDraws[k]
Outcomes(a, effective, vel) ==
    Each([i \in Particles |->
            Each([k \in 1..Len(FrameDraws) |->
                    UpdateParticle(effective, a.pathForces, a.dt, Vec(positions, i),
                                   Vec(vel, i), lifetimes[i], FrameDraws[k])],
                 Len(FrameDraws))],
         count)

\* The draws are enumerated only for a particle whose iteration reads them:
\* one that gets turbulence or is respawned.
StoreUpdate(op, a, effective, outcomes) ==
    \E pick \in [Particles -> 1..Len(FrameDraws)] :
        /\ \A i \in Particles : pick[i] = 1 \/ chaosMode \/ outcomes[i][1].escaped
        /\ positions' = Flat([i \in Particles |-> outcomes[i][pick[i]].pos], count)
        /\ velocities' = Flat([i \in Particles |-> outcomes[i][pick[i]].vel], count)
        /\ lifetimes' = Each([i \in Particles |-> outcomes[i][pick[i]].life], count)
        /\ last' = [op |-> op, pre |-> Snapshot,
                    wells |-> a.wells, handVelocities |-> a.handVelocities,
                    dt |-> a.dt, pathForces |-> a.pathForces,
                    x |-> 0, y |-> 0, strength |-> 0,
                    effective |-> effective, g |-> EffectiveG,
                    acc |-> Each([i \in Particles |-> outcomes[i][pick[i]].acc], count),
                    escaped |-> {i \in Particles : outcomes[i][pick[i]].escaped}]

\* update called with the arguments a, as operation op, on the velocities vel
UpdateWith(op, a, vel) ==
    StoreUpdate(op, a, EffectiveWells(ScaleWells(a.wells, a.handVelocities)),
                Outcomes(a, EffectiveWells(ScaleWells(a.wells, a.handVelocities)), vel))

\* Fault injection: an update that reseeds the masses.
UpdateReseedingMass ==
    /\ steps < MaxSteps
    /\ \E a \in UpdateArgs : UpdateWith("update", a, velocities)
    /\ masses' = Each([i \in Particles |-> Unit \div 2], count)
    /\ steps' = steps + 1
    /\ UNCHANGED <<particleCount, count, G, drag, chaosMode, chaosFactor,
                   attractMode, now>>
    /\ UNCHANGED <<trackerVars, frameVars, gameVars, appVars>>

\* update(gravityWells, handVelocities, dt, pathForces)
Update ==
    /\ steps < MaxSteps
    /\ \E a \in UpdateArgs : UpdateWith("update", a, velocities)
    /\ steps' = steps + 1
    /\ UNCHANGED <<particleCount, count, masses, G, drag, chaosMode, chaosFactor,
                   attractMode, now>>
    /\ UNCHANGED <<trackerVars, frameVars, gameVars, appVars>>

\* three wells, each within 0.5 of the two others
ThreeWells ==
    << [x |-> 0 - (Unit \div 10), y |-> 0, z |-> 0, strength |-> Unit],
       [x |-> Unit \div 10, y |-> 0, z |-> 0, strength |-> Unit],
       [x |-> 0, y |-> Unit \div 10, z |-> 0, strength |-> Unit] >>

\* one well 1.5 from the origin in world space, beyond 2.5 from the outer
\* particle
FarWell == << [x |-> 0 - Unit, y |-> 0, z |-> 0, strength |-> Unit] >>

\* two wells 0.4167 apart in y as supplied, 0.5 apart in world space
EdgePair ==
    << [x |-> 0, y |-> 0, z |-> 0, strength |-> Unit],
       [x |-> 0, y |-> 4167, z |-> 0, strength |-> Unit] >>

\* one well 0.03 from the origin in world space, inside the softening distance
SoftWell == << [x |-> Unit \div 50, y |-> 0, z |-> 0, strength |-> Unit] >>

\* one velocity for two wells
ShortVelocities == << [vx |-> Unit \div 5, vy |-> 0] >>

\* entries without vx, without vy
PartialVelocities == << [vy |-> Unit \div 10], [vx |-> Unit \div 5] >>

\* hands at the slingshot speed threshold and below it
SlowVelocities == << [vx |-> Unit \div 100, vy |-> 0], [vx |-> 0, vy |-> Unit \div 200] >>

StillCall(wells) ==
    [wells |-> wells, handVelocities |-> <<>>, dt |-> DtScale, pathForces |-> <<>>]

MovingCall(wells, handVelocities) ==
    [wells |-> wells, handVelocities |-> handVelocities, dt |-> DtScale,
     pathForces |-> <<>>]

\* Calls with no well, one well, two and three wells, wells near and far,
\* hand-velocity lists that are short or incomplete, and a path.
FieldArgs ==
    { StillCall(<<>>), StillCall(OneWell), StillCall(ThreeWells), StillCall(FarWell),
      StillCall(EdgePair), StillCall(SoftWell),
      MovingCall(NearPair, ShortVelocities),
      MovingCall(FarPair, ShortVelocities),
      MovingCall(FarPair, PartialVelocities),
      MovingCall(FarPair, SlowVelocities) }
    \cup { a \in UpdateArgs : a.pathForces # <<>> }

\* update(gravityWells, handVelocities, dt, pathForces), over FieldArgs
UpdateField ==
    /\ steps < MaxSteps
    /\ \E a \in FieldArgs : UpdateWith("update", a, velocities)
    /\ steps' = steps + 1
    /\ UNCHANGED <<particleCount, count, masses, G, drag, chaosMode, chaosFactor,
                   attractMode, now>>
    /\ UNCHANGED <<trackerVars, frameVars, gameVars, appVars>>

\* ------------------------------------- Physics.applyExplosion / applyImplosion
impulseMinDistance == Unit \div 100

explosionRadius == (15 * Unit) \div 10

implosionRadius == 2 * Unit

\* velocities[i3] += dx * invDist * force, velocities[i3 + 1] += dy * invDist * force
Push(v, dx, dy, dist, force) ==
    <<FAdd(v[1], Along(dx, dist, force)), FAdd(v[2], Along(dy, dist, force)), v[3]>>

ExplodeWithin(v, dx, dy, dist, explosionForce) ==
    IF FLt(dist, explosionRadius) /\ FGt(dist, impulseMinDistance)
    THEN Push(v, dx, dy, dist, FMul(explosionForce, FSub(Unit, FDiv(dist, explosionRadius))))
    ELSE v

ExplodeOffset(v, dx, dy, explosionForce) ==
    ExplodeWithin(v, dx, dy, Hypot(dx, dy, 0), explosionForce)

\* the velocity applyExplosion leaves a particle at p moving at v
ExplodeParticle(p, v, worldX, worldY, explosionForce) ==
    ExplodeOffset(v, FSub(p[1], worldX), FSub(p[2], worldY), explosionForce)

\* Fault injection: an implosion without the dist > 0.01 guard.
ImplodeUnguarded(v, dx, dy, dist, implosionForce) ==
    IF FLt(dist, implosionRadius)
    THEN Push(v, dx, dy, dist, FMul(implosionForce, FSub(Unit, FDiv(dist, implosionRadius))))
    ELSE v

ImplodeWithin(v, dx, dy, dist, implosionForce) ==
    IF FLt(dist, implosionRadius) /\ FGt(dist, impulseMinDistance)
    THEN Push(v, dx, dy, dist, FMul(implosionForce, FSub(Unit, FDiv(dist, implosionRadius))))
    ELSE v

ImplodeOffset(v, dx, dy, implosionForce) ==
    ImplodeWithin(v, dx, dy, Hypot(dx, dy, 0), implosionForce)

\* the velocity applyImplosion leaves a particle at p moving at v
ImplodeParticle(p, v, worldX, worldY, implosionForce) ==
    ImplodeOffset(v, FSub(worldX, p[1]), FSub(worldY, p[2]), implosionForce)

ExplodeAll(vel, worldX, worldY, explosionForce) ==
    Flat([i \in Particles |->
            ExplodeParticle(Vec(positions, i), Vec(vel, i), worldX, worldY,
                            explosionForce)], count)

ImplodeAll(vel, worldX, worldY, implosionForce) ==
    Flat([i \in Particles |->
            ImplodeParticle(Vec(positions, i), Vec(vel, i), worldX, worldY,
                            implosionForce)], count)

\* Fault injection: an explosion centred on the target as supplied.
applyExplosionUnscaled(vel, x, y, strength) ==
    ExplodeAll(vel, x, y, FMul((8 * Unit) \div 100, strength))

\* the velocities array applyExplosion(x, y, strength) makes of vel
applyExplosion(vel, x, y, strength) ==
    ExplodeAll(vel, FScale(x, 15, 10), FScale(y, 12, 10), FMul((8 * Unit) \div 100, strength))

\* the velocities array applyImplosion(x, y, strength) makes of vel
applyImplosion(vel, x, y, strength) ==
    ImplodeAll(vel, FScale(x, 15, 10), FScale(y, 12, 10), FMul((6 * Unit) \div 100, strength))

\* The impulses explored: target in normalized coordinates, and strength.
ImpulseArgs ==
    { [x |-> 0, y |-> 0, strength |-> Unit],
      [x |-> 0 - (Unit \div 5), y |-> 0, strength |-> (15 * Unit) \div 10] }

ApplyExplosion ==
    /\ steps < MaxSteps
    /\ \E a \in ImpulseArgs :
          /\ velocities' = applyExplosion(velocities, a.x, a.y, a.strength)
          /\ last' = [[op |-> "applyExplosion", pre |-> Snapshot] @@ NoCall
                        EXCEPT !.x = a.x, !.y = a.y, !.strength = a.strength]
    /\ steps' = steps + 1
    /\ UNCHANGED <<particleCount, count, positions, masses, lifetimes, G, drag,
                   chaosMode, chaosFactor, attractMode, now>>
    /\ UNCHANGED <<trackerVars, frameVars, gameVars, appVars>>

ApplyImplosion ==
    /\ steps < MaxSteps
    /\ \E a \in ImpulseArgs :
          /\ velocities' = applyImplosion(velocities, a.x, a.y, a.strength)
          /\ last' = [[op |-> "applyImplosion", pre |-> Snapshot] @@ NoCall
                        EXCEPT !.x = a.x, !.y = a.y, !.strength = a.strength]
    /\ steps' = steps + 1
    /\ UNCHANGED <<particleCount, count, positions, masses, lifetimes, G, drag,
                   chaosMode, chaosFactor, attractMode, now>>
    /\ UNCHANGED <<trackerVars, frameVars, gameVars, appVars>>

\* ------------------------------------ the attract / repel buttons of the app
SetAttractMode ==
    /\ steps < MaxSteps
    /\ \E attract \in BOOLEAN : attractMode' = attract
    /\ last' = [op |-> "setAttractMode", pre |-> Snapshot] @@ NoCall
    /\ steps' = steps + 1
    /\ UNCHANGED <<particleCount, count, positions, velocities, masses, lifetimes,
                   G, drag, chaosMode, chaosFactor, now>>
    /\ UNCHANGED <<trackerVars, frameVars, gameVars, appVars>>

\* ------------------------------------------------------------- HandTracker
\* detectGesture, from the number of extended fingers it counts on the
\* landmarks and the normalized finger spread
detectGesture(extendedCount, spread) ==
    IF spread > (7 * Unit) \div 10 /\ extendedCount >= 4 THEN "OPEN_PALM"
    ELSE IF extendedCount <= 1 /\ spread < (3 * Unit) \div 10 THEN "FIST"
    ELSE IF extendedCount = 1 \/ extendedCount = 2 THEN "POINTING"
    ELSE "PARTIAL"

\* what onResults pushes to rawHands for one detected hand d: the palm centre
\* in image coordinates, the normalized spread, the extended fingers
RawHand(d) ==
    [x |-> 0 - (2 * d.palmX - Unit),
     y |-> 0 - (2 * d.palmY - Unit),
     z |-> d.palmZ,
     spread |-> d.spread,
     fingerX |-> 0 - (2 * d.indexX - Unit),
     fingerY |-> 0 - (2 * d.indexY - Unit),
     gesture |-> detectGesture(d.extended, d.spread)]

RawHands(results) == [i \in 1..Len(results) |-> RawHand(results[i])]

\* Fault injection: an explosion only for a hand that was a fist.
HandEventsFistOnly(raw, prev, i) ==
    (IF raw[i].gesture = "OPEN_PALM" /\ i <= Len(prev) /\ prev[i] = "FIST"
     THEN << [type |-> "EXPLOSION", handIndex |-> i - 1, x |-> raw[i].x, y |-> raw[i].y] >>
     ELSE <<>>)
    \o
    (IF raw[i].gesture = "FIST" /\ i <= Len(prev) /\ prev[i] = "OPEN_PALM"
     THEN << [type |-> "IMPLODE", handIndex |-> i - 1, x |-> raw[i].x, y |-> raw[i].y] >>
     ELSE <<>>)

\* the events detectGestureEvents pushes for hand i (handIndex i - 1)
HandEvents(raw, prev, i) ==
    (IF raw[i].gesture = "OPEN_PALM" /\ i <= Len(prev) /\ prev[i] \in {"FIST", "PARTIAL"}
     THEN << [type |-> "EXPLOSION", handIndex |-> i - 1, x |-> raw[i].x, y |-> raw[i].y] >>
     ELSE <<>>)
    \o
    (IF raw[i].gesture = "FIST" /\ i <= Len(prev) /\ prev[i] = "OPEN_PALM"
     THEN << [type |-> "IMPLODE", handIndex |-> i - 1, x |-> raw[i].x, y |-> raw[i].y] >>
     ELSE <<>>)

\* the gestureEvents detectGestureEvents leaves, for the first n hands
RECURSIVE detectGestureEvents(_, _, _)
detectGestureEvents(raw, prev, n) ==
    IF n = 0 THEN <<>> ELSE detectGestureEvents(raw, prev, n - 1) \o HandEvents(raw, prev, n)

\* smooth.x += (raw.x - smooth.x) * smoothingFactor, and so on
SmoothHand(smooth, raw) ==
    [x |-> smooth.x + FScale(raw.x - smooth.x, 5, 10),
     y |-> smooth.y + FScale(raw.y - smooth.y, 5, 10),
     z |-> smooth.z + FScale(raw.z - smooth.z, 5, 10),
     spread |-> smooth.spread + FScale(raw.spread - smooth.spread, 5, 10)]

\* the hands smoothHands leaves: as many as rawHands, a new one a copy
smoothHands(old, raw) ==
    [i \in 1..Len(raw) |-> SmoothHand(IF i <= Len(old) THEN old[i] ELSE raw[i], raw[i])]

\* The detections explored: no hand, a fist, an open palm.
FistDetection ==
    [palmX |-> (6 * Unit) \div 10, palmY |-> Unit \div 2, palmZ |-> 0 - (Unit \div 10),
     spread |-> Unit \div 10, extended |-> 0,
     indexX |-> (6 * Unit) \div 10, indexY |-> (4 * Unit) \div 10]

PalmDetection ==
    [palmX |-> (6 * Unit) \div 10, palmY |-> Unit \div 2, palmZ |-> 0 - (Unit \div 10),
     spread |-> (9 * Unit) \div 10, extended |-> 5,
     indexX |-> Unit \div 2, indexY |-> (3 * Unit) \div 10]

Results == { <<>>, <<FistDetection>>, <<PalmDetection>> }

Track(raw, events) ==
    /\ rawHands' = raw
    /\ gestureEvents' = events
    /\ prevGestures' = [i \in 1..Len(raw) |-> raw[i].gesture]
    /\ hands' = smoothHands(hands, raw)
    /\ detected' = detected + Len(events)

Detect(raw) == Track(raw, detectGestureEvents(raw, prevGestures, Len(raw)))

\* HandTracker.onResults, the camera callback
OnResults ==
    /\ steps < MaxAppSteps
    /\ \E results \in Results : Detect(RawHands(results))
    /\ fresh' = TRUE
    /\ last' = [op |-> "onResults", pre |-> Snapshot, prevGestures |-> prevGestures]
                @@ NoCall
    /\ steps' = steps + 1
    /\ UNCHANGED <<physicsVars, now, prevHands, applied, staleApplied>>
    /\ UNCHANGED <<gameVars, appVars>>

\* Detections of a half-open hand and of a pointing hand.
PartialDetection ==
    [palmX |-> (6 * Unit) \div 10, palmY |-> Unit \div 2, palmZ |-> 0 - (Unit \div 10),
     spread |-> Unit \div 2, extended |-> 3,
     indexX |-> (6 * Unit) \div 10, indexY |-> (4 * Unit) \div 10]

PointingDetection ==
    [palmX |-> (6 * Unit) \div 10, palmY |-> Unit \div 2, palmZ |-> 0 - (Unit \div 10),
     spread |-> (2 * Unit) \div 10, extended |-> 2,
     indexX |-> (6 * Unit) \div 10, indexY |-> (4 * Unit) \div 10]

\* Results of one and of two hands, in each gesture.
HandResults ==
    { <<>>, <<FistDetection>>, <<PalmDetection>>, <<PartialDetection>>,
      <<PointingDetection>>, <<PalmDetection, FistDetection>>,
      <<FistDetection, PalmDetection>>, <<PartialDetection, PalmDetection>> }

\* HandTracker.onResults on any of these results
OnHands ==
    /\ steps < MaxAppSteps
    /\ \E results \in HandResults : Detect(RawHands(results))
    /\ fresh' = TRUE
    /\ last' = [op |-> "onResults", pre |-> Snapshot, prevGestures |-> prevGestures]
                @@ NoCall
    /\ steps' = steps + 1
    /\ UNCHANGED <<physicsVars, now, prevHands, applied, staleApplied>>
    /\ UNCHANGED <<gameVars, appVars>>

\* HandTracker.getGravityWells
getGravityWells ==
    [i \in 1..Len(hands) |->
        [x |-> hands[i].x, y |-> hands[i].y, z |-> hands[i].z,
         strength |-> (Unit \div 2) + FScale(hands[i].spread, 5, 10)]]

\* HandTracker.getHandVelocities, which also stores hands as _prevHands
getHandVelocities ==
    [i \in 1..Len(hands) |->
        IF i <= Len(prevHands)
        THEN [vx |-> hands[i].x - prevHands[i].x, vy |-> hands[i].y - prevHands[i].y]
        ELSE [vx |-> 0, vy |-> 0]]

\* ------------------------------------------------- calls of the GameMode
\* a call that leaves the GameMode g
GameCall(g) ==
    /\ StoreGame(g)
    /\ steps' = steps + 1
    /\ UNCHANGED <<physicsVars, now, last, trackerVars, frameVars, appVars>>

\* The points drawn: world coordinates.
DrawPoints == { [x |-> Unit \div 2, y |-> 0], [x |-> 0, y |-> 0 - Unit] }

AddDrawPoint ==
    /\ steps < MaxGameSteps
    /\ \E p \in DrawPoints : GameCall(addDrawPoint(Game, p.x, p.y, now))

GetActivePath ==
    /\ steps < MaxGameSteps
    /\ GameCall(getActivePath(Game, now))

ClearPath ==
    /\ steps < MaxGameSteps
    /\ GameCall(clearPath(Game, now))

SetMode ==
    /\ steps < MaxGameSteps
    /\ \E mode \in {"free", "draw"} : GameCall(setMode(Game, mode, now))

\* The points awarded: none, a drawn point, an explosion.
ScorePoints == {0, 1, 50}

AddScore ==
    /\ steps < MaxGameSteps
    /\ \E points \in ScorePoints : GameCall(addScore(Game, points, now))

IncreaseCombo ==
    /\ steps < MaxGameSteps
    /\ GameCall(increaseCombo(Game, now))

ResetScore ==
    /\ steps < MaxGameSteps
    /\ GameCall(resetScore(Game, now))

StartChallengeCall ==
    /\ steps < MaxGameSteps
    /\ \E type \in ChallengeTypes : GameCall(startChallenge(Game, type, now))

\* The particle arrays handed to updateChallenge and detectOrbits: one
\* particle circling near the centre; that one and one drifting outward at
\* the edge; three, of which one circles.
Circling == [pos |-> <<(4 * Unit) \div 10, 0, 0>>, vel |-> <<0, Unit \div 100, 0>>]

Leaving == [pos |-> <<2 * Unit, 0, 0>>, vel |-> <<Unit \div 100, 0, 0>>]

Resting == [pos |-> <<0, 0 - Unit, 0>>, vel |-> <<0, 0, 0>>]

Swarm(particles) ==
    [positions |-> Flat([i \in 1..Len(particles) |-> particles[i].pos], Len(particles)),
     velocities |-> Flat([i \in 1..Len(particles) |-> particles[i].vel], Len(particles)),
     count |-> Len(particles)]

Swarms ==
    { Swarm(<<Circling>>), Swarm(<<Circling, Leaving>>),
      Swarm(<<Circling, Leaving, Resting>>) }

UpdateChallenge ==
    /\ steps < MaxGameSteps
    /\ \E a \in Swarms : GameCall(updateChallenge(Game, a.positions, a.count, now))

DetectOrbits ==
    /\ steps < MaxGameSteps
    /\ \E a \in Swarms :
          GameCall(detectOrbits(Game, a.positions, a.velocities, a.count, now))

\* The time that passes between two calls, in milliseconds.
Elapses == {1000, 2001, 30 * 1000}

\* Date.now() advances
Tick ==
    /\ steps < MaxGameSteps
    /\ \E ms \in Elapses : now' = now + ms
    /\ steps' = steps + 1
    /\ UNCHANGED <<physicsVars, last, trackerVars, frameVars, gameVars, appVars>>

\* the time of the k-th point of a drawing begun 9 seconds ago, a point
\* every 25 ms
DrawnAt(k) == StartTime - 9000 + 25 * k

\* The GameMode after draw mode was entered and k points drawn, each a call
\* of addDrawPoint that scored one point at combo 1, k < pathMaxLength.
Sketch(k) ==
    [NewGame(NoItem) EXCEPT
        !.currentMode = "draw",
        !.drawPath = [i \in 1..k |-> [x |-> i, y |-> 0 - i, time |-> DrawnAt(i)]],
        !.score = k,
        !.comboTimer = DrawnAt(k),
        !.highScore = k,
        !.storage = setItem(toString(k))]

\* A drawing in progress: n points, the last of them just added.
Drawing(n) == addDrawPoint(Sketch(n - 1), n, 0 - n, DrawnAt(n))

\* A collect challenge in progress: started a second ago, and n calls of
\* updateChallenge since with the one particle at the centre.
RECURSIVE Collecting(_)
Collecting(n) ==
    IF n = 0 THEN startChallenge(NewGame(NoItem), "collect", StartTime - 1000)
    ELSE updateChallenge(Collecting(n - 1), Swarm(<<Circling>>).positions, 1,
                         StartTime - 1000 + 100 * n)

\* The drawing sessions explored: a new GameMode, and a drawing one point
\* short of pathMaxLength.
DrawingSessions == { NewGame(NoItem), Drawing(pathMaxLength - 1) }

\* The scoring sessions explored: a first visit, a visit that finds a high
\* score of 120 stored, and a challenge that has raised the combo to 9.
ScoringSessions ==
    { NewGame(NoItem), NewGame(setItem(toString(120))), Collecting(8) }

\* HandTracker.getFingerTips: the raw index finger tips, `fingerX || x`
getFingerTips ==
    [i \in 1..Len(rawHands) |->
        [x |-> IF rawHands[i].fingerX = 0 THEN rawHands[i].x ELSE rawHands[i].fingerX,
         y |-> IF rawHands[i].fingerY = 0 THEN rawHands[i].y ELSE rawHands[i].fingerY]]

\* ------------------------------------------------- GravitySculptor.animate
gestureStrength == (15 * Unit) \div 10

\* the body of the loop over the gesture events
ApplyEvent(event, vel) ==
    IF event.type = "EXPLOSION" THEN applyExplosion(vel, event.x, event.y, gestureStrength)
    ELSE IF event.type = "IMPLODE" THEN applyImplosion(vel, event.x, event.y, gestureStrength)
    ELSE vel

\* the velocities after the first n events
RECURSIVE ApplyEvents(_, _, _)
ApplyEvents(events, vel, n) ==
    IF n = 0 THEN vel ELSE ApplyEvent(events[n], ApplyEvents(events, vel, n - 1))

\* Math.min((now - lastTime) / 16.67, 2) * particleSpeed, particleSpeed 1
FrameDts == {DtScale, 2 * DtScale}

\* the points animate awards for a gesture event
ScoreEvent(g, event, t) ==
    IF event.type = "EXPLOSION" THEN addScore(g, 50, t)
    ELSE IF event.type = "IMPLODE" THEN addScore(g, 30, t)
    ELSE g

\* the GameMode after the loop over the first n gesture events
RECURSIVE ScoreEvents(_, _, _, _)
ScoreEvents(g, events, n, t) ==
    IF n = 0 THEN g ELSE ScoreEvent(ScoreEvents(g, events, n - 1, t), events[n], t)

\* the GameMode after the first n finger tips are added to the drawing
RECURSIVE DrawTips(_, _, _, _)
DrawTips(g, tips, n, t) ==
    IF n = 0 THEN g
    ELSE addDrawPoint(DrawTips(g, tips, n - 1, t),
                      FScale(tips[n].x, 18, 10), FScale(tips[n].y, 14, 10), t)

\* in draw mode the finger tips are drawn and the faded points dropped
Drawn(g, tips, t) ==
    IF g.currentMode = "draw" THEN getActivePath(DrawTips(g, tips, Len(tips), t), t)
    ELSE g

\* the GameMode when animate calls update
FrameGame(g, t) ==
    Drawn(ScoreEvents(g, gestureEvents, Len(gestureEvents), t), getFingerTips, t)

\* the pathForces animate hands to update
PathForces(g) == IF g.currentMode = "draw" THEN g.drawPath ELSE <<>>

\* updateChallenge is called while a challenge is active
Judge(g, pos, n, t) ==
    IF g.challengeActive THEN updateChallenge(g, pos, n, t) ELSE g

\* the GameMode when the frame ends: detectOrbits, then updateChallenge, on
\* the particles update left
FrameEnd(g, pos, vel, n, t) == Judge(detectOrbits(g, pos, vel, n, t), pos, n, t)

\* Fault injection: a frame that runs update first and applies the gesture
\* impulses to the velocities update left.
AnimateUpdateFirst ==
    /\ steps < MaxAppSteps
    /\ pending > 0
    /\ ~hidden
    /\ isRunning
    /\ initialized
    /\ \E dt \in FrameDts :
          \E pick \in [Particles -> 1..Len(FrameDraws)] :
             /\ \A i \in Particles :
                   \/ pick[i] = 1
                   \/ chaosMode
                   \/ UpdateParticle(EffectiveWells(ScaleWells(getGravityWells,
                                                               getHandVelocities)),
                                     <<>>, dt, Vec(positions, i), Vec(velocities, i),
                                     lifetimes[i], FrameDraws[1]).escaped
             /\ positions' =
                   Flat([i \in Particles |->
                           UpdateParticle(EffectiveWells(ScaleWells(getGravityWells,
                                                                    getHandVelocities)),
                                          <<>>, dt, Vec(positions, i), Vec(velocities, i),
                                          lifetimes[i], FrameDraws[pick[i]]).pos], count)
             /\ velocities' =
                   ApplyEvents(gestureEvents,
                       Flat([i \in Particles |->
                               UpdateParticle(EffectiveWells(ScaleWells(getGravityWells,
                                                                        getHandVelocities)),
                                              <<>>, dt, Vec(positions, i),
                                              Vec(velocities, i), lifetimes[i],
                                              FrameDraws[pick[i]]).vel], count),
                       Len(gestureEvents))
             /\ lifetimes' =
                   Each([i \in Particles |->
                           UpdateParticle(EffectiveWells(ScaleWells(getGravityWells,
                                                                    getHandVelocities)),
                                          <<>>, dt, Vec(positions, i), Vec(velocities, i),
                                          lifetimes[i], FrameDraws[pick[i]]).life], count)
             /\ last' = [op |-> "animate", pre |-> Snapshot,
                         wells |-> getGravityWells,
                         handVelocities |-> getHandVelocities,
                         dt |-> dt, pathForces |-> <<>>,
                         x |-> 0, y |-> 0, strength |-> 0,
                         effective |-> EffectiveWells(ScaleWells(getGravityWells,
                                                                 getHandVelocities)),
                         g |-> EffectiveG,
                         acc |-> Each([i \in Particles |->
                                   UpdateParticle(EffectiveWells(ScaleWells(getGravityWells,
                                                                            getHandVelocities)),
                                                  <<>>, dt, Vec(positions, i),
                                                  Vec(velocities, i), lifetimes[i],
                                                  FrameDraws[pick[i]]).acc], count),
                         escaped |-> {i \in Particles :
                                   UpdateParticle(EffectiveWells(ScaleWells(getGravityWells,
                                                                            getHandVelocities)),
                                                  <<>>, dt, Vec(positions, i),
                                                  Vec(velocities, i), lifetimes[i],
                                                  FrameDraws[pick[i]]).escaped}]
    /\ prevHands' = hands
    /\ applied' = applied + Len(gestureEvents)
    /\ staleApplied' = (staleApplied \/ (~fresh /\ gestureEvents # <<>>))
    /\ fresh' = FALSE
    /\ steps' = steps + 1
    /\ UNCHANGED <<particleCount, count, masses, G, drag, chaosMode, chaosFactor,
                   attractMode, now>>
    /\ UNCHANGED <<rawHands, hands, prevGestures, gestureEvents, detected>>
    /\ StoreGame(FrameEnd(FrameGame(Game, now), positions', velocities', count, now))
    /\ UNCHANGED appVars

\* The body of animate past its two early returns, g the GameMode when
\* update is called: the wells and hand velocities are read, the gesture
\* events returned by getGestureEvents are applied, then update, then the
\* orbits and the challenge are judged.
Frame(g) ==
    /\ \E dt \in FrameDts :
          UpdateWith("animate",
                     [wells |-> getGravityWells, handVelocities |-> getHandVelocities,
                      dt |-> dt, pathForces |-> PathForces(g)],
                     ApplyEvents(gestureEvents, velocities, Len(gestureEvents)))
    /\ StoreGame(FrameEnd(g, positions', velocities', count, now))
    /\ prevHands' = hands
    /\ applied' = applied + Len(gestureEvents)
    /\ staleApplied' = (staleApplied \/ (~fresh /\ gestureEvents # <<>>))
    /\ fresh' = FALSE
    /\ UNCHANGED <<particleCount, count, masses, G, drag, chaosMode, chaosFactor,
                   attractMode>>
    /\ UNCHANGED <<rawHands, hands, prevGestures, gestureEvents, detected>>

\* A call of animate() when requested frames are outstanding besides it,
\* running the value of isRunning and ready whether the renderer exists: it
\* returns at once when the loop is stopped; otherwise it requests the next
\* frame and, unless the renderer is still missing, runs the body.
AnimateWhen(running, ready, requested) ==
    IF ~running
    THEN /\ pending' = requested
         /\ UNCHANGED <<physicsVars, last, trackerVars, frameVars, gameVars>>
    ELSE /\ pending' = requested + 1
         /\ IF ready THEN Frame(FrameGame(Game, now))
            ELSE UNCHANGED <<physicsVars, last, trackerVars, frameVars, gameVars>>

AnimateCall(requested) == AnimateWhen(isRunning, initialized, requested)

\* The animation frame callback: animate() called by requestAnimationFrame
\* on a visible page.
Animate ==
    /\ steps < MaxAppSteps
    /\ pending > 0
    /\ ~hidden
    /\ AnimateCall(pending - 1)
    /\ steps' = steps + 1
    /\ UNCHANGED <<now, appChaosMode, isMouseDrawing, initialized, isRunning, hidden>>

\* ----------------------------------------- the controls of GravitySculptor
\* toggleChaos, on the key C and on the chaos button
ToggleChaos ==
    /\ steps < MaxAppSteps
    /\ chaosMode' = ~chaosMode
    /\ chaosFactor' = IF chaosMode' THEN 3 ELSE 1
    /\ appChaosMode' = chaosMode'
    /\ last' = [op |-> "toggleChaosMode", pre |-> Snapshot] @@ NoCall
    /\ steps' = steps + 1
    /\ UNCHANGED <<particleCount, count, positions, velocities, masses, lifetimes,
                   G, drag, attractMode, now>>
    /\ UNCHANGED <<trackerVars, frameVars, gameVars>>
    /\ UNCHANGED <<isMouseDrawing, initialized, isRunning, pending, hidden>>

\* The particle-count slider: a new Physics(val) replaces the old one.
SetParticleCount ==
    /\ steps < MaxAppSteps
    /\ \E val \in 1..MaxParticles :
          /\ particleCount' = val
          /\ count' = val
          /\ \E draws \in [1..val -> SpawnDraws] : StoreArrays(initParticles(val, draws))
    /\ G' = 150
    /\ drag' = 995
    /\ chaosMode' = FALSE
    /\ chaosFactor' = 1
    /\ attractMode' = TRUE
    /\ last' = [op |-> "constructor", pre |-> <<>>] @@ NoCall
    /\ steps' = steps + 1
    /\ UNCHANGED <<now, trackerVars, frameVars, gameVars, appVars>>

\* The reseedings explored by the buttons that reset the particles.
ButtonSeeds == {4, 6}

\* startFresh, on the reset and Start Fresh buttons
StartFresh ==
    /\ steps < MaxAppSteps
    /\ \E k \in ButtonSeeds : StoreArrays(initParticles(count, SeedFrom(k)))
    /\ StoreGame([setMode(clearPath(resetScore(Game, now), now), "free", now)
                     EXCEPT !.challengeActive = FALSE])
    /\ appChaosMode' = FALSE
    /\ chaosMode' = FALSE
    /\ attractMode' = TRUE
    /\ last' = [op |-> "initParticles", pre |-> Snapshot] @@ NoCall
    /\ steps' = steps + 1
    /\ UNCHANGED <<particleCount, count, G, drag, chaosFactor, now>>
    /\ UNCHANGED <<trackerVars, frameVars>>
    /\ UNCHANGED <<isMouseDrawing, initialized, isRunning, pending, hidden>>

\* startChallenge(type), on the three challenge buttons
StartChallenge ==
    /\ steps < MaxAppSteps
    /\ \E k \in ButtonSeeds : StoreArrays(initParticles(count, SeedFrom(k)))
    /\ \E type \in ChallengeTypes : StoreGame(startChallenge(Game, type, now))
    /\ last' = [op |-> "initParticles", pre |-> Snapshot] @@ NoCall
    /\ steps' = steps + 1
    /\ UNCHANGED <<particleCount, count, G, drag, chaosMode, chaosFactor, attractMode, now>>
    /\ UNCHANGED <<trackerVars, frameVars, appVars>>

\* the draw button: setMode(isDrawing ? 'free' : 'draw')
ToggleDraw ==
    /\ steps < MaxAppSteps
    /\ StoreGame(setMode(Game, IF currentMode = "draw" THEN "free" ELSE "draw", now))
    /\ steps' = steps + 1
    /\ UNCHANGED <<physicsVars, now, last, trackerVars, frameVars, appVars>>

\* The pointer positions explored, in normalized coordinates.
PointerAt == { [x |-> (2 * Unit) \div 10, y |-> 0], [x |-> 0, y |-> Unit \div 2] }

\* addMouseDrawPoint: addDrawPoint(x * 1.5, y * 1.2)
addMouseDrawPoint(g, at, t) ==
    addDrawPoint(g, FScale(at.x, 15, 10), FScale(at.y, 12, 10), t)

\* mousedown and touchstart on the canvas
MouseDown ==
    /\ steps < MaxAppSteps
    /\ IF currentMode = "draw"
       THEN /\ isMouseDrawing' = TRUE
            /\ \E at \in PointerAt : StoreGame(addMouseDrawPoint(Game, at, now))
       ELSE UNCHANGED <<isMouseDrawing, gameVars>>
    /\ steps' = steps + 1
    /\ UNCHANGED <<physicsVars, now, last, trackerVars, frameVars>>
    /\ UNCHANGED <<appChaosMode, initialized, isRunning, pending, hidden>>

\* mousemove and touchmove on the canvas
MouseMove ==
    /\ steps < MaxAppSteps
    /\ IF isMouseDrawing /\ currentMode = "draw"
       THEN \E at \in PointerAt : StoreGame(addMouseDrawPoint(Game, at, now))
       ELSE UNCHANGED gameVars
    /\ steps' = steps + 1
    /\ UNCHANGED <<physicsVars, now, last, trackerVars, frameVars, appVars>>

\* mouseup, mouseleave and touchend on the canvas
MouseUp ==
    /\ steps < MaxAppSteps
    /\ isMouseDrawing' = FALSE
    /\ steps' = steps + 1
    /\ UNCHANGED <<physicsVars, now, last, trackerVars, frameVars, gameVars>>
    /\ UNCHANGED <<appChaosMode, initialized, isRunning, pending, hidden>>

\* the duration of a challenge passes
Wait ==
    /\ steps < MaxAppSteps
    /\ now' = now + challengeDuration
    /\ steps' = steps + 1
    /\ UNCHANGED <<physicsVars, last, trackerVars, frameVars, gameVars, appVars>>

\* The time between two animation frames of a running challenge, in ms.
FrameGaps == {10 * 1000, 20 * 1000}

\* The animation frame callback as a challenge runs: while a challenge is
\* active the frames keep coming and the clock moves on between them; the
\* frames of a page without a challenge are counted in steps.
RunFrame ==
    /\ challengeActive \/ steps < MaxChallengeSteps
    /\ pending > 0
    /\ ~hidden
    /\ AnimateCall(pending - 1)
    /\ IF challengeActive
       THEN /\ \E ms \in FrameGaps : now' = now + ms
            /\ steps' = steps
       ELSE /\ now' = now
            /\ steps' = steps + 1
    /\ UNCHANGED <<appChaosMode, isMouseDrawing, initialized, isRunning, hidden>>

\* ------------------------------------------------- the loop of the page
\* init(), called once by the bootstrap: the modules are created as Init
\* describes them, isRunning is set and animate() is called.
AppInit ==
    /\ steps < MaxAppSteps
    /\ ~initialized
    /\ initialized' = TRUE
    /\ isRunning' = TRUE
    /\ AnimateWhen(TRUE, TRUE, pending)
    /\ steps' = steps + 1
    /\ UNCHANGED <<now, appChaosMode, isMouseDrawing, hidden>>

\* visibilitychange, the document hidden: the loop is stopped; the frame
\* already requested stays requested and is not served while hidden
Hide ==
    /\ steps < MaxAppSteps
    /\ ~hidden
    /\ hidden' = TRUE
    /\ isRunning' = FALSE
    /\ steps' = steps + 1
    /\ UNCHANGED <<physicsVars, now, last, trackerVars, frameVars, gameVars>>
    /\ UNCHANGED <<appChaosMode, isMouseDrawing, initialized, pending>>

\* visibilitychange, the document shown: isRunning is set and animate() is
\* called directly
Show ==
    /\ steps < MaxAppSteps
    /\ hidden
    /\ hidden' = FALSE
    /\ isRunning' = TRUE
    /\ AnimateWhen(TRUE, initialized, pending)
    /\ steps' = steps + 1
    /\ UNCHANGED <<now, appChaosMode, isMouseDrawing, initialized>>

\* dispose(), on beforeunload
Dispose ==
    /\ steps < MaxAppSteps
    /\ isRunning' = FALSE
    /\ steps' = steps + 1
    /\ UNCHANGED <<physicsVars, now, last, trackerVars, frameVars, gameVars>>
    /\ UNCHANGED <<appChaosMode, isMouseDrawing, initialized, pending, hidden>>

\* ------------------------------------------------------------ specification
Next ==
    \/ InitParticles
    \/ Update
    \/ ApplyExplosion
    \/ ApplyImplosion
    \/ ToggleChaosMode
    \/ SetAttractMode

Spec == Init /\ [][Next]_vars

\* Reseeding: the reset key pressed between calls that disturb the particles.
NextSeed ==
    \/ ResetParticles
    \/ Update
    \/ ApplyExplosion
    \/ ApplyImplosion

SpecSeed == Init /\ [][NextSeed]_vars

\* The force field without turbulence: update under either mode.
NextField ==
    \/ UpdateField
    \/ SetAttractMode

SpecField == Init /\ [][NextField]_vars

\* The application: camera callbacks, animation frames and presses of the
\* reset key, each a callback that runs to completion, in any order.
NextApp ==
    \/ OnResults
    \/ Animate
    \/ ResetParticles

SpecApp == Init /\ [][NextApp]_vars

\* The camera callback alone, on one particle.
InitOne == Init /\ particleCount = 1

NextGesture == OnHands

SpecGesture == InitOne /\ [][NextGesture]_vars

\* The chaos flag: the controls that write it or replace the Physics.
NextChaos ==
    \/ ToggleChaos
    \/ StartFresh
    \/ ResetParticles
    \/ SetParticleCount

SpecChaos == Init /\ [][NextChaos]_vars

\* The modes of the game: the buttons, the pointer and the frames, as a
\* challenge runs out.
NextModes ==
    \/ ToggleDraw
    \/ StartChallenge
    \/ StartFresh
    \/ MouseDown
    \/ MouseMove
    \/ MouseUp
    \/ Animate
    \/ Wait

SpecModes == InitOne /\ [][NextModes]_vars

\* The page from its load: new GravitySculptor() has run, init() has not.
InitLoop ==
    /\ InitPhysics
    /\ particleCount = 1
    /\ InitTracker
    /\ InitFrames
    /\ InitGame(NewGame(NoItem))
    /\ appChaosMode = FALSE
    /\ isMouseDrawing = FALSE
    /\ initialized = FALSE
    /\ isRunning = FALSE
    /\ pending = 0
    /\ hidden = FALSE

NextLoop ==
    \/ AppInit
    \/ Hide
    \/ Show
    \/ Animate
    \/ Dispose

SpecLoop == InitLoop /\ [][NextLoop]_vars

\* A challenge from its button to its end, the frames running.
\* a challenge button clicked
ClickChallenge ==
    /\ steps < MaxChallengeSteps
    /\ StartChallenge

\* updateChallenge called outside the frames
AskChallenge ==
    /\ steps < MaxChallengeSteps
    /\ UpdateChallenge

NextChallenge ==
    \/ ClickChallenge
    \/ RunFrame
    \/ AskChallenge

\* RunFrame can be taken: ENABLED <<RunFrame>>_vars, written out.
FrameReady ==
    /\ challengeActive \/ steps < MaxChallengeSteps
    /\ pending > 0
    /\ ~hidden

\* The frames keep running: WF_vars(RunFrame), with its ENABLED written out.
FramesRun == []<>(~FrameReady) \/ []<><<RunFrame>>_vars

SpecChallenge == InitOne /\ [][NextChallenge]_vars /\ FramesRun

\* The drawing path of the GameMode, called in any order as time passes.
InitPath ==
    /\ InitPhysics
    /\ particleCount = 1
    /\ InitTracker
    /\ InitFrames
    /\ \E g \in DrawingSessions : InitGame(g)
    /\ InitApp

NextPath ==
    \/ AddDrawPoint
    \/ GetActivePath
    \/ ClearPath
    \/ SetMode
    \/ Tick

SpecPath == InitPath /\ [][NextPath]_vars

\* The scoring of the GameMode, called in any order as time passes.
InitScore ==
    /\ InitPhysics
    /\ particleCount = 1
    /\ InitTracker
    /\ InitFrames
    /\ \E g \in ScoringSessions : InitGame(g)
    /\ InitApp

NextScore ==
    \/ AddScore
    \/ IncreaseCombo
    \/ ResetScore
    \/ StartChallengeCall
    \/ UpdateChallenge
    \/ DetectOrbits
    \/ Tick

SpecScore == InitScore /\ [][NextScore]_vars

\* --------------------------------------------------------------- properties
Finite3(v) == ~IsNaN(v[1]) /\ ~IsNaN(v[2]) /\ ~IsNaN(v[3])

\* vx^2 + vy^2 + vz^2, NaN when a component is
SpeedSq(v) == IF Finite3(v) THEN SumSq(v[1], v[2], v[3]) ELSE NaN

AfterUpdate == last.op = "update"

AfterImpulse == last.op \in {"applyExplosion", "applyImplosion"}

\* where the last update had particle i after its position-integration step
IntegratedPosition(i) ==
    IntegratePosition(Vec(last.pre.positions, i),
                      ClampVelocity(IntegrateVelocity(Vec(last.pre.velocities, i),
                                                      last.acc[i], last.dt)),
                      last.dt)

Crossed(i) == OutOfBounds(IntegratedPosition(i))

PlanarDistance(p, t) == Hypot(FSub(p[1], t[1]), FSub(p[2], t[2]), 0)

\* ---- C1
\* C1, as the claim states it: after any call of update every particle's speed
\* is a number and is at most maxVelocity (to within one unit of the
\* fixed-point grid).
C1_ClampInvariant ==
    AfterUpdate =>
        \A i \in Particles :
            /\ Finite3(Vec(velocities, i))
            /\ SpeedSq(Vec(velocities, i)) <= (maxVelocity + 1) * (maxVelocity + 1)

\* ---- C2
\* C2: count stays the n the Physics was constructed with, positions and
\* velocities keep 3n entries, masses and lifetimes keep n.
C2_Population ==
    /\ count = particleCount
    /\ Len(positions) = 3 * particleCount
    /\ Len(velocities) = 3 * particleCount
    /\ Len(masses) = particleCount
    /\ Len(lifetimes) = particleCount

\* C2: an update has respawned a particle of a Physics of more than one particle.
C2_RespawnKeepsPopulation ==
    /\ AfterUpdate
    /\ last.escaped # {}
    /\ particleCount > 1
    /\ Len(lifetimes) = particleCount

\* ---- C3
respawnLimit == (4 * Unit) \div 10

\* C3: a particle that the position-integration step of update puts at
\* x^2 + y^2 > 16 is within planar radius 0.4 of the origin when update returns.
C3_RespawnBoundary ==
    AfterUpdate =>
        \A i \in Particles :
            Crossed(i) => ~SumSqGt(positions[3 * i - 2], positions[3 * i - 1], respawnLimit)

\* C3: an update carried a particle across the boundary and left it at planar
\* radius 0.1 or more.
C3_Respawned ==
    /\ AfterUpdate
    /\ \E i \in Particles :
          /\ Crossed(i)
          /\ SumSqGt(positions[3 * i - 2], positions[3 * i - 1], (Unit \div 10) - 1)

\* ---- C4
SuppliedDistance(wells) == Hypot(wells[1].x - wells[2].x, wells[1].y - wells[2].y, 0)

WorldDistance(wells) ==
    Hypot(FScale(wells[1].x - wells[2].x, 15, 10), FScale(wells[1].y - wells[2].y, 12, 10), 0)

\* (s1 + s2) * (1 + (1 - d / 0.5) * 0.5), which is (s1 + s2) * (1.5 - d)
ClaimedStrength(wells, d) ==
    FScale(wells[1].strength + wells[2].strength, ((3 * Unit) \div 2) - d, Unit)

\* the two wells of the last update were replaced by one well at their
\* midpoint, of the strength claimed for distance d and the average velocity
MergedAt(d) ==
    /\ Len(last.effective) = 1
    /\ Abs(last.effective[1].strength - ClaimedStrength(last.wells, d)) <= 1
    /\ Abs(2 * last.effective[1].x - FScale(last.wells[1].x + last.wells[2].x, 15, 10)) <= 2
    /\ Abs(2 * last.effective[1].y - FScale(last.wells[1].y + last.wells[2].y, 12, 10)) <= 2
    /\ Abs(2 * last.effective[1].vx
           - (HandVelocity(last.handVelocities, 1).vx + HandVelocity(last.handVelocities, 2).vx)) <= 1
    /\ Abs(2 * last.effective[1].vy
           - (HandVelocity(last.handVelocities, 1).vy + HandVelocity(last.handVelocities, 2).vy)) <= 1

UnitStrengths(wells) == wells[1].strength = Unit /\ wells[2].strength = Unit

\* C4, as the claim states it: d is the planar distance between the two wells
\* as supplied; d < 0.5 merges them, and d = 0.3 with strengths 1 and 1 gives 2.4.
C4_MergeSupplied ==
    (AfterUpdate /\ Len(last.wells) = 2) =>
        /\ FLt(SuppliedDistance(last.wells), mergeDistance)
              => MergedAt(SuppliedDistance(last.wells))
        /\ (SuppliedDistance(last.wells) = (3 * Unit) \div 10 /\ UnitStrengths(last.wells))
              => (Len(last.effective) = 1 /\ last.effective[1].strength = (24 * Unit) \div 10)

\* C4, amended: d is the planar distance between the two wells after their
\* conversion to world space (x * 1.5, y * 1.2); d < 0.5 merges them, and
\* d = 0.3 with strengths 1 and 1 gives 2.4.
C4_MergeWorld ==
    (AfterUpdate /\ Len(last.wells) = 2) =>
        /\ FLt(WorldDistance(last.wells), mergeDistance)
              => MergedAt(WorldDistance(last.wells))
        /\ (WorldDistance(last.wells) = (3 * Unit) \div 10 /\ UnitStrengths(last.wells))
              => (Len(last.effective) = 1 /\ last.effective[1].strength = (24 * Unit) \div 10)

\* C4: an update merged two wells of strength 1 at world distance 0.3 into
\* one of strength 2.4.
C4_Merged ==
    /\ AfterUpdate
    /\ Len(last.wells) = 2
    /\ WorldDistance(last.wells) = (3 * Unit) \div 10
    /\ UnitStrengths(last.wells)
    /\ Len(last.effective) = 1
    /\ last.effective[1].strength = (24 * Unit) \div 10

\* ---- C5
SuppliedTarget == <<last.x, last.y>>

WorldTarget == <<FScale(last.x, 15, 10), FScale(last.y, 12, 10)>>

\* 0.08 * strength * (1 - d / 1.5)
ClaimedIncrement(strength, d) ==
    FScale(FScale(strength, 8, 100), explosionRadius - d, explosionRadius)

\* what the last impulse added to the x and y velocity of particle i
Increment(i) ==
    <<FSub(velocities[3 * i - 2], last.pre.velocities[3 * i - 2]),
      FSub(velocities[3 * i - 1], last.pre.velocities[3 * i - 1])>>

\* dv points along (dx, dy), up to the truncation of its components
PointsAlong(dv, dx, dy) ==
    /\ dv[1] * dx + dv[2] * dy >= 0
    /\ Abs(dv[1] * dy - dv[2] * dx) <= Abs(dx) + Abs(dy)

\* dv is the claimed increment for a particle at offset (dx, dy), distance d,
\* from the target: the magnitude to within the rounding of the grid
IncrementAt(dv, dx, dy, d, m) ==
    /\ Abs(Hypot(dv[1], dv[2], 0) - m) <= (m \div d) + 3
    /\ PointsAlong(dv, dx, dy)

ExplodedFrom(i, p, t, d) ==
    (FGt(d, impulseMinDistance) /\ FLt(d, explosionRadius))
        => IncrementAt(Increment(i), p[1] - t[1], p[2] - t[2], d,
                       ClaimedIncrement(last.strength, d))

\* every particle between 0.01 and 1.5 of target t gained the claimed increment
ExplosionFrom(t) ==
    last.op = "applyExplosion" =>
        \A i \in Particles :
            ExplodedFrom(i, Vec(last.pre.positions, i), t,
                         PlanarDistance(Vec(last.pre.positions, i), t))

\* C5, as the claim states it: the increment 0.08 * strength * (1 - dist / 1.5)
\* is measured from, and points away from, the point (x, y) passed to
\* applyExplosion.
C5_ExplosionFromSupplied == ExplosionFrom(SuppliedTarget)

\* C5, amended: the increment is measured from, and points away from, the
\* world-space target (x * 1.5, y * 1.2).
C5_ExplosionFromWorld == ExplosionFrom(WorldTarget)

\* C5: an explosion off the origin changed the velocity of a particle between
\* 0.01 and 1.5 of its world-space target.
C5_Exploded ==
    /\ last.op = "applyExplosion"
    /\ last.x # 0
    /\ \E i \in Particles :
          /\ FGt(PlanarDistance(Vec(last.pre.positions, i), WorldTarget), impulseMinDistance)
          /\ FLt(PlanarDistance(Vec(last.pre.positions, i), WorldTarget), explosionRadius)
          /\ Increment(i) # <<0, 0>>

\* ---- C6
Undriven ==
    /\ AfterUpdate
    /\ last.wells = <<>>
    /\ last.pathForces = <<>>
    /\ ~last.pre.chaosMode

Slower(i) ==
    FLt(SpeedSq(Vec(velocities, i)), SpeedSq(Vec(last.pre.velocities, i)))

Faster(i) ==
    FGt(SpeedSq(Vec(velocities, i)), SpeedSq(Vec(last.pre.velocities, i)))

\* C6, as the claim states it: an update with no wells, no path points and
\* chaos mode off leaves no particle faster than it was, respawned or not.
C6_DecayAll == Undriven => \A i \in Particles : ~Faster(i)

\* C6, amended: such an update leaves no particle faster than it was, except
\* those it respawned.
C6_DecayKept == Undriven => \A i \in Particles \ last.escaped : ~Faster(i)

\* C6: such an update slowed a particle it did not respawn.
C6_Decayed == Undriven /\ \E i \in Particles \ last.escaped : Slower(i)

\* ---- C7
\* C7, as the claim states it: animate never makes more applyExplosion /
\* applyImplosion calls than gesture transitions were detected, a frame with
\* no onResults since the frame before it makes none, and when a frame ends
\* every detected transition has had its one call.
C7_OncePerTrigger ==
    /\ applied <= detected
    /\ ~staleApplied
    /\ last.op = "animate" => applied = detected

\* ---- C8
AtWell(i, well) == Vec(last.pre.positions, i) = <<well.x, well.y, well.z>>

\* C8, as the claim states it: update leaves a particle that sat exactly on an
\* effective well with a finite acceleration, velocity and position.
C8_ZeroDistanceFinite ==
    AfterUpdate =>
        \A i \in Particles : \A k \in 1..Len(last.effective) :
            AtWell(i, last.effective[k]) =>
                /\ Finite3(last.acc[i])
                /\ Finite3(Vec(velocities, i))
                /\ Finite3(Vec(positions, i))

\* ---- C9
Saturated(life) == IF life + lifetimeStep > Unit THEN Unit ELSE life + lifetimeStep

\* C9: every lifetime is in [0, 1]; update leaves a particle it did not
\* respawn with min(1, old + step), which is no less than old, and one it
\* respawned with a single step; the impulses leave lifetimes alone.
C9_Lifetime ==
    /\ \A i \in Particles : 0 <= lifetimes[i] /\ lifetimes[i] <= Unit
    /\ AfterUpdate =>
          \A i \in Particles :
              IF i \in last.escaped
              THEN lifetimes[i] = lifetimeStep
              ELSE /\ lifetimes[i] = Saturated(last.pre.lifetimes[i])
                   /\ lifetimes[i] >= last.pre.lifetimes[i]
    /\ AfterImpulse => lifetimes = last.pre.lifetimes

\* C9: an update brought the lifetime of a particle it kept from below 1 to 1.
C9_Saturates ==
    /\ AfterUpdate
    /\ \E i \in Particles \ last.escaped :
          last.pre.lifetimes[i] + lifetimeStep > Unit /\ lifetimes[i] = Unit

\* ---- C10
ImpulseRadius == IF last.op = "applyExplosion" THEN explosionRadius ELSE implosionRadius

\* particle i was strictly between 0.01 and the radius of the world-space target
InBand(i) ==
    /\ FGt(PlanarDistance(Vec(last.pre.positions, i), WorldTarget), impulseMinDistance)
    /\ FLt(PlanarDistance(Vec(last.pre.positions, i), WorldTarget), ImpulseRadius)

AfterSeed == last.op \in {"constructor", "initParticles"}

driftLimit == Unit \div 2000

depthDriftLimit == Unit \div 10000

spawnRadius == (15 * Unit) \div 10

\* the position lies at z = 0 inside the ellipse x = cos(a) r, y = 0.8 sin(a) r
\* with r < 1.5
InSpawnEllipse(p) ==
    /\ p[3] = 0
    /\ Abs(p[1]) < spawnRadius
    /\ Abs(p[2]) < FScale(spawnRadius, 8, 10)
    /\ FLt(Hypot(p[1], FScale(p[2], 10, 8), 0), spawnRadius)

InDrift(v) ==
    /\ Abs(v[1]) <= driftLimit
    /\ Abs(v[2]) <= driftLimit
    /\ Abs(v[3]) <= depthDriftLimit

\* C11: after initParticles, from the constructor or from a reset, whatever
\* the particles were before, every particle lies in the spawn ellipse at
\* z = 0, its drift is at most 0.0005 in x and y and 0.0001 in z, its mass is
\* in [0.5, 1) and its lifetime in [0, 1): nothing of the earlier state stays.
C11_Reseeded ==
    AfterSeed =>
        \A i \in Particles :
            /\ InSpawnEllipse(Vec(positions, i))
            /\ InDrift(Vec(velocities, i))
            /\ masses[i] >= Unit \div 2 /\ masses[i] < Unit
            /\ lifetimes[i] >= 0 /\ lifetimes[i] < Unit

\* C11 witness: a reset of particles that were outside every spawn range:
\* faster than the drift, or not finite, and off the axis after it.
C11_ResetDisturbed ==
    /\ last.op = "initParticles"
    /\ \E i \in Particles :
          /\ ~InDrift(Vec(last.pre.velocities, i))
          /\ Vec(positions, i)[2] # 0

\* ---------------------------------------------------------------------- C12
\* the acceleration of particle i in the last update, from the positions,
\* the wells and the path alone
MassFreeAcceleration(i) ==
    Acceleration(last.effective, last.pathForces, Vec(last.pre.positions, i),
                 FrameDraws[1])

MassFreeVelocity(i) ==
    ClampVelocity(IntegrateVelocity(Vec(last.pre.velocities, i), last.acc[i], last.dt))

ExplicitVelocities(handVelocities, n) ==
    [k \in 1..n |->
        IF k <= Len(handVelocities)
        THEN [vx |-> IF "vx" \in DOMAIN handVelocities[k]
                     THEN handVelocities[k].vx ELSE 0,
              vy |-> IF "vy" \in DOMAIN handVelocities[k]
                     THEN handVelocities[k].vy ELSE 0]
        ELSE [vx |-> 0, vy |-> 0]]

ExplicitWells ==
    EffectiveWells(ScaleWells(last.wells,
                              ExplicitVelocities(last.handVelocities, Len(last.wells))))

Incomplete(handVelocities, n) ==
    \/ Len(handVelocities) < n
    \/ \E k \in 1..Len(handVelocities) : DOMAIN handVelocities[k] # {"vx", "vy"}

\* C13: a well whose hand-velocity entry is absent, or lacks vx or vy, is
\* treated as having zero for what is missing: the wells update used, a merged
\* one included, and the accelerations it computed are those of the call with
\* the zeros written out.
C13_MissingVelocityIsZero ==
    AfterUpdate =>
        /\ last.effective = ExplicitWells
        /\ \A k \in 1..Len(last.wells) :
              (k > Len(last.handVelocities) /\ Len(last.effective) = Len(last.wells))
                  => (last.effective[k].vx = 0 /\ last.effective[k].vy = 0)
        /\ ~chaosMode =>
              \A i \in Particles :
                  last.acc[i] = Acceleration(ExplicitWells, last.pathForces,
                                             Vec(last.pre.positions, i), FrameDraws[1])

\* C13 witness: two wells kept apart and one velocity, with a particle in
\* slingshot range of both wells.
C13_OneVelocityTwoWells ==
    /\ AfterUpdate
    /\ Len(last.wells) = 2 /\ Len(last.effective) = 2
    /\ Len(last.handVelocities) = 1
    /\ \E i \in Particles :
          /\ Finite3(last.acc[i])
          /\ \A k \in 1..2 :
                FLt(Hypot(FSub(last.effective[k].x, Vec(last.pre.positions, i)[1]),
                          FSub(last.effective[k].y, Vec(last.pre.positions, i)[2]),
                          FSub(last.effective[k].z, Vec(last.pre.positions, i)[3])),
                    slingshotRadius)

\* ---------------------------------------------------------------------- C14
AfterFrame == last.op = "animate"

\* the velocity one gesture event of the frame gives a particle at p moving at v
FrameImpulse(event, p, v) ==
    IF event.type = "EXPLOSION"
    THEN ExplodeParticle(p, v, FScale(event.x, 15, 10), FScale(event.y, 12, 10),
                         FMul((8 * Unit) \div 100, gestureStrength))
    ELSE IF event.type = "IMPLODE"
    THEN ImplodeParticle(p, v, FScale(event.x, 15, 10), FScale(event.y, 12, 10),
                         FMul((6 * Unit) \div 100, gestureStrength))
    ELSE v

RECURSIVE FrameImpulses(_, _, _, _)
FrameImpulses(events, p, v, n) ==
    IF n = 0 THEN v ELSE FrameImpulse(events[n], p, FrameImpulses(events, p, v, n - 1))

\* the velocity of particle i once every gesture impulse of the frame has
\* acted on it, at the position it had when the frame began
ImpulsedVelocity(i) ==
    FrameImpulses(gestureEvents, Vec(last.pre.positions, i),
                  Vec(last.pre.velocities, i), Len(gestureEvents))

FrameVelocity(i) ==
    ClampVelocity(IntegrateVelocity(ImpulsedVelocity(i), last.acc[i], last.dt))

\* C14: the callbacks run one at a time, and within a frame every gesture
\* impulse is complete before update starts: update integrates, clamps and
\* moves each particle from the velocity the impulses left, at the position
\* the impulses saw, so no impulse acts on a half-updated particle and none
\* escapes the clamp of the frame.
C14_ImpulsesThenUpdate ==
    AfterFrame =>
        \A i \in Particles :
            /\ i \notin last.escaped =>
                  /\ Vec(velocities, i) = FrameVelocity(i)
                  /\ Vec(positions, i) =
                        IntegratePosition(Vec(last.pre.positions, i), FrameVelocity(i),
                                          last.dt)
            /\ Finite3(Vec(velocities, i)) =>
                  SpeedSq(Vec(velocities, i)) <= (maxVelocity + 1) * (maxVelocity + 1)

\* C14 witness: a frame whose gesture impulse pushed a particle past the
\* velocity limit before update clamped it.
C14_ImpulseClamped ==
    /\ AfterFrame
    /\ gestureEvents # <<>>
    /\ \E i \in Particles :
          /\ Finite3(ImpulsedVelocity(i))
          /\ SpeedSq(ImpulsedVelocity(i)) > maxVelocity * maxVelocity
          /\ Finite3(Vec(velocities, i))

\* ---------------------------------------------------------------------- C15
\* an update with wells only: no path, no turbulence
WellsOnly == AfterUpdate /\ ~chaosMode /\ last.pathForces = <<>>

Still(well) == [well EXCEPT !.vx = 0, !.vy = 0]

\* what well k of the last update adds to particle i by gravity alone
GravityTerm(k, i) ==
    WellAcceleration(Still(last.effective[k]), Vec(last.pre.positions, i), last.g,
                     attractMode)

WellDistance(k, i) ==
    Hypot(FSub(last.effective[k].x, Vec(last.pre.positions, i)[1]),
          FSub(last.effective[k].y, Vec(last.pre.positions, i)[2]),
          FSub(last.effective[k].z, Vec(last.pre.positions, i)[3]))

WellSpeed(k) == Hypot(last.effective[k].vx, last.effective[k].vy, 0)

Flings(k, i) ==
    /\ FGt(WellSpeed(k), Unit \div 100)
    /\ FLt(WellDistance(k, i), Unit \div 2)

\* 0.5 * (1 - dist / 0.5)
Taper(dist) == Quot(Unit - 2 * dist, 2)

\* (vx, vy) * 0.5 * (1 - dist / 0.5)
LinearFling(k, i) ==
    IF Flings(k, i)
    THEN <<FMul(last.effective[k].vx, Taper(WellDistance(k, i))),
           FMul(last.effective[k].vy, Taper(WellDistance(k, i))), 0>>
    ELSE <<0, 0, 0>>

\* (vx, vy) * handSpeed * 0.5 * (1 - dist / 0.5)
SpeedFling(k, i) ==
    IF Flings(k, i)
    THEN <<FMul(last.effective[k].vx, FMul(WellSpeed(k), Taper(WellDistance(k, i)))),
           FMul(last.effective[k].vy, FMul(WellSpeed(k), Taper(WellDistance(k, i)))), 0>>
    ELSE <<0, 0, 0>>

\* a and b agree on every axis to within tol units of the fixed-point grid
Near(a, b, tol) ==
    /\ Finite3(a) /\ Finite3(b)
    /\ \A c \in 1..3 : Abs(a[c] - b[c]) <= tol

LinearTotal(i) ==
    VSum([k \in 1..Len(last.effective) |-> VAdd(GravityTerm(k, i), LinearFling(k, i))],
         Len(last.effective))

SpeedTotal(i) ==
    VSum([k \in 1..Len(last.effective) |-> VAdd(GravityTerm(k, i), SpeedFling(k, i))],
         Len(last.effective))

\* C15, as the claim states it: a well faster than 0.01 and closer than 0.5
\* adds exactly (vx, vy) * 0.5 * (1 - dist / 0.5) to the x and y acceleration,
\* linear in the well velocity, on top of its gravity; any other well adds
\* its gravity only.
C15_SlingshotLinear ==
    WellsOnly =>
        \A i \in Particles :
            Finite3(last.acc[i]) =>
                Near(last.acc[i], LinearTotal(i), 2 * Len(last.effective))

\* C15, amended: the contribution is (vx, vy) * handSpeed * 0.5 * (1 - dist / 0.5),
\* handSpeed the magnitude of the well velocity, so it grows with the square
\* of the well velocity; a well at or below speed 0.01, or at distance 0.5
\* or more, adds its gravity only.
C15_SlingshotSpeedScaled ==
    WellsOnly =>
        \A i \in Particles :
            Finite3(last.acc[i]) =>
                Near(last.acc[i], SpeedTotal(i), 2 * Len(last.effective))

\* C15 witness: a particle flung by one well of a pair and in range of the
\* other, which moves too slowly or not at all.
C15_Flung ==
    /\ WellsOnly
    /\ \E i \in Particles :
          /\ Finite3(last.acc[i])
          /\ \E k \in 1..Len(last.effective) :
                Flings(k, i) /\ SpeedFling(k, i) # <<0, 0, 0>>
          /\ \E k \in 1..Len(last.effective) :
                ~Flings(k, i) /\ FLt(WellDistance(k, i), Unit \div 2)

\* ---------------------------------------------------------------------- C16
\* C16, as the claim states it: update uses G itself when chaos mode is off
\* and G times a multiplier between 2 and 3 when toggleChaosMode turned it on;
\* a second toggle brings the multiplier back to 1.
C16_ChaosTwoToThree ==
    /\ AfterUpdate =>
          /\ ~chaosMode => last.g = G
          /\ chaosMode => (last.g >= 2 * G /\ last.g <= 3 * G)
    /\ (last.op = "toggleChaosMode" /\ last.pre.chaosMode) => EffectiveG = G

\* C16, amended: with chaos mode on update uses G * chaosFactor * 2 with
\* chaosFactor 3, six times G; with chaos mode off it uses G, and a second
\* toggle brings the constant back to G.
C16_ChaosSixfold ==
    /\ AfterUpdate =>
          /\ ~chaosMode => last.g = G
          /\ chaosMode => last.g = 6 * G
    /\ (last.op = "toggleChaosMode" /\ last.pre.chaosMode) => EffectiveG = G
    /\ (last.op = "toggleChaosMode" /\ ~last.pre.chaosMode) => EffectiveG = 6 * G

\* C16 witness: an update in chaos mode that pulled a particle with a well.
C16_ChaoticPull ==
    /\ AfterUpdate
    /\ chaosMode
    /\ last.wells # <<>>
    /\ \E i \in Particles : Finite3(last.acc[i]) /\ last.acc[i] # <<0, 0, 0>>

\* ---------------------------------------------------------------------- C17
\* the wells of the last update in world space, one per supplied well
SuppliedWells == ScaleWells(last.wells, last.handVelocities)

\* the last update was given no pair of wells closer than 0.5 in world space
Unmerging ==
    \/ Len(last.wells) # 2
    \/ ~FLt(WorldDistance(last.wells), mergeDistance)

\* the sum over the supplied wells of what each adds to particle i on its own
IndependentTotal(i) ==
    VSum([k \in 1..Len(last.wells) |->
            WellAcceleration(SuppliedWells[k], Vec(last.pre.positions, i), last.g,
                             attractMode)],
         Len(last.wells))

\* C17: with no well, one well, three wells, or two wells 0.5 or more apart,
\* update makes no merged well: it uses the supplied wells one by one, and a
\* particle's acceleration is the sum of what each well adds on its own
\* (nothing when there is no well).
C17_MergeOnlyClosePair ==
    (AfterUpdate /\ Unmerging) =>
        /\ last.effective = SuppliedWells
        /\ Len(last.effective) = Len(last.wells)
        /\ WellsOnly =>
              \A i \in Particles :
                  /\ last.acc[i] = IndependentTotal(i)
                  /\ last.wells = <<>> => last.acc[i] = <<0, 0, 0>>

\* C17 witness: three wells, each within 0.5 of the others, pulling a
\* particle each on its own.
C17_ThreeClose ==
    /\ WellsOnly
    /\ Len(last.wells) = 3
    /\ Len(last.effective) = 3
    /\ \A j, k \in 1..3 :
          FLt(Hypot(SuppliedWells[j].x - SuppliedWells[k].x,
                    SuppliedWells[j].y - SuppliedWells[k].y, 0), mergeDistance)
    /\ \E i \in Particles : Finite3(last.acc[i]) /\ last.acc[i] # <<0, 0, 0>>

\* ---------------------------------------------------------------------- C18
\* an update with one well at rest and nothing else acting
OneStillWell ==
    /\ WellsOnly
    /\ Len(last.effective) = 1
    /\ last.effective[1].vx = 0 /\ last.effective[1].vy = 0

\* G * strength / max(dist, 0.05)^2
ClaimedPull(dist) ==
    Quot(last.g * last.effective[1].strength,
         Quot(Max2(dist, (5 * Unit) \div 100) * Max2(dist, (5 * Unit) \div 100),
              GScale \div Unit))

\* particle i, if it has a position, got nothing from a well 2.5 or more
\* away, and from a nearer well an acceleration of the claimed magnitude, to
\* within the rounding of the distance and of the three components
CutoffAt(i, dist) ==
    IF IsNaN(dist) THEN TRUE
    ELSE IF dist >= (25 * Unit) \div 10
    THEN last.acc[i] = <<0, 0, 0>>
    ELSE /\ Finite3(last.acc[i])
         /\ Abs(Hypot(last.acc[i][1], last.acc[i][2], last.acc[i][3])
                - ClaimedPull(dist)) * dist <= ClaimedPull(dist) + 3 * dist

\* C18, as the claim states it: a well at Euclidean distance 2.5 or more adds
\* nothing to a particle, and a well nearer than 2.5 adds gravity of magnitude
\* G * strength / max(dist, 0.05)^2.
C18_HardCutoff ==
    OneStillWell => \A i \in Particles : CutoffAt(i, WellDistance(1, i))

\* ---------------------------------------------------------------------- C19
Negated(v) == <<FScale(v[1], -1, 1), FScale(v[2], -1, 1), FScale(v[3], -1, 1)>>

\* what well k of the last update would add to particle i by gravity alone
\* had the mode been the other one
OppositeGravity(k, i) ==
    WellAcceleration(Still(last.effective[k]), Vec(last.pre.positions, i), last.g,
                     ~attractMode)

OppositeGravityTotal(i) ==
    VSum([k \in 1..Len(last.effective) |-> OppositeGravity(k, i)], Len(last.effective))

FlingTotal(i) ==
    VSum([k \in 1..Len(last.effective) |-> SpeedFling(k, i)], Len(last.effective))

PathTotal(i) ==
    VSum([k \in 1..Len(last.pathForces) |->
            PathAcceleration(last.pathForces[k], Vec(last.pre.positions, i), now)],
         Len(last.pathForces))

\* C19: for the same particles and wells, the gravity acceleration update
\* computes in one mode is the exact negation of the one it computes in the
\* other mode, while the slingshot and the path attraction enter the
\* acceleration with the same sign in both modes.
C19_ModeNegatesGravity ==
    (AfterUpdate /\ ~chaosMode) =>
        \A i \in Particles :
            /\ (\A k \in 1..Len(last.effective) :
                    last.effective[k].vx = 0 /\ last.effective[k].vy = 0)
                 /\ last.pathForces = <<>>
                    => last.acc[i] = Negated(OppositeGravityTotal(i))
            /\ Finite3(last.acc[i]) =>
                  Near(last.acc[i],
                       VAdd(VAdd(Negated(OppositeGravityTotal(i)), FlingTotal(i)),
                            PathTotal(i)),
                       2 * Len(last.effective))

\* C19 witness: an update in repel mode that pushed a particle away from a
\* moving well and flung it along the well's velocity.
C19_RepelledAndFlung ==
    /\ AfterUpdate /\ ~chaosMode
    /\ ~attractMode
    /\ \E i \in Particles :
          /\ Finite3(last.acc[i])
          /\ OppositeGravityTotal(i) # <<0, 0, 0>>
          /\ FlingTotal(i) # <<0, 0, 0>>

\* ---------------------------------------------------------------------- C20
\* an update with a path only: no well, no turbulence
PathOnly == AfterUpdate /\ ~chaosMode /\ last.wells = <<>>

AgeMs(point) == now - point.time

PointDistance(point, i) ==
    PlanarDistance(<<point.x, point.y, 0>>, Vec(last.pre.positions, i))

InPathBand(point, i) ==
    /\ FGt(PointDistance(point, i), Unit \div 100)
    /\ FLt(PointDistance(point, i), (6 * Unit) \div 10)

\* (1 - age / 8000) * 0.0005 / (dist + 0.03)
FadedPull(age, dist) ==
    Quot((8000 - age) * 5 * Unit, 8000 * (dist + (3 * Unit) \div 100))

\* the attraction toward the point claimed for particle i
ClaimedPathTerm(point, i) ==
    IF AgeMs(point) < 8000 /\ InPathBand(point, i)
    THEN <<Quot(FSub(point.x, Vec(last.pre.positions, i)[1])
                * FadedPull(AgeMs(point), PointDistance(point, i)),
                PointDistance(point, i)),
           Quot(FSub(point.y, Vec(last.pre.positions, i)[2])
                * FadedPull(AgeMs(point), PointDistance(point, i)),
                PointDistance(point, i)),
           0>>
    ELSE <<0, 0, 0>>

ClaimedPathTotal(i) ==
    VSum([k \in 1..Len(last.pathForces) |-> ClaimedPathTerm(last.pathForces[k], i)],
         Len(last.pathForces))

\* C20: a path point 8000 ms old or older adds nothing; a younger one whose
\* planar distance to the particle is above 0.01 and below 0.6 pulls the
\* particle toward it with magnitude (1 - age/8000) * 0.0005 / (dist + 0.03),
\* the factor (1 - age/8000) * 0.0005 being at most 0.0005; a point at
\* distance 0.01 or less, or 0.6 or more, and an empty list add nothing.
C20_PathFades ==
    PathOnly =>
        /\ \A i \in Particles :
              /\ Finite3(Vec(last.pre.positions, i)) =>
                    Near(last.acc[i], ClaimedPathTotal(i), 2)
              /\ last.pathForces = <<>> => last.acc[i] = <<0, 0, 0>>
        /\ \A k \in 1..Len(last.pathForces) :
              AgeMs(last.pathForces[k]) < 8000 =>
                  (8000 - AgeMs(last.pathForces[k])) * 5 <= 8000 * 5

\* C20 witness: a particle pulled by a fresh point while a faded point lies
\* at the same place, and a particle with a point on it, a point at 0.01
\* and a point at 0.6 pulled only by a point drawn that instant.
C20_FreshPulls ==
    /\ PathOnly
    /\ \E i \in Particles :
          /\ \E k \in 1..Len(last.pathForces) :
                AgeMs(last.pathForces[k]) >= 8000 /\ InPathBand(last.pathForces[k], i)
          /\ ClaimedPathTotal(i) # <<0, 0, 0>>
          /\ last.acc[i] # <<0, 0, 0>>
    /\ \E i \in Particles :
          /\ \E k \in 1..Len(last.pathForces) :
                PointDistance(last.pathForces[k], i) = (6 * Unit) \div 10
          /\ \E k \in 1..Len(last.pathForces) :
                PointDistance(last.pathForces[k], i) = Unit \div 100
          /\ \E k \in 1..Len(last.pathForces) :
                AgeMs(last.pathForces[k]) = 0 /\ InPathBand(last.pathForces[k], i)
          /\ last.acc[i] # <<0, 0, 0>>

\* ---------------------------------------------------------------- C21
AfterResults == last.op = "onResults"

\* hand i was recorded by the previous onResults with one of the gestures
Was(i, gestures) ==
    i <= Len(last.prevGestures) /\ last.prevGestures[i] \in gestures

\* the events the list holds for hand i, by type
EventsOf(i, type) ==
    {k \in 1..Len(gestureEvents) :
        gestureEvents[k].handIndex = i - 1 /\ gestureEvents[k].type = type}

Opened(i) == rawHands[i].gesture = "OPEN_PALM" /\ Was(i, {"FIST", "PARTIAL"})

Closed(i) == rawHands[i].gesture = "FIST" /\ Was(i, {"OPEN_PALM"})

\* C21: after each onResults the event list holds one EXPLOSION for hand i
\* exactly when the hand is an OPEN_PALM and the previous onResults recorded
\* FIST or PARTIAL at index i, one IMPLODE exactly when it is a FIST and
\* OPEN_PALM was recorded, each at the position of the hand, and nothing
\* else: no event for an unchanged gesture, none for an index the previous
\* result lacked, none left over from an earlier result.
C21_GestureTransitions ==
    AfterResults =>
        /\ \A i \in 1..Len(rawHands) :
              /\ Cardinality(EventsOf(i, "EXPLOSION")) = (IF Opened(i) THEN 1 ELSE 0)
              /\ Cardinality(EventsOf(i, "IMPLODE")) = (IF Closed(i) THEN 1 ELSE 0)
        /\ \A k \in 1..Len(gestureEvents) :
              /\ gestureEvents[k].type \in {"EXPLOSION", "IMPLODE"}
              /\ gestureEvents[k].handIndex + 1 \in 1..Len(rawHands)
              /\ gestureEvents[k].x = rawHands[gestureEvents[k].handIndex + 1].x
              /\ gestureEvents[k].y = rawHands[gestureEvents[k].handIndex + 1].y
        /\ prevGestures = [i \in 1..Len(rawHands) |-> rawHands[i].gesture]

\* C21 witness: after an earlier event, a result with two hands
\* whose first hand, half open before, is now an open palm and explodes,
\* while the second hand, absent before, is a fist without an event.
C21_PartialOpened ==
    /\ AfterResults
    /\ Len(rawHands) = 2
    /\ Len(last.prevGestures) = 1
    /\ last.prevGestures[1] = "PARTIAL"
    /\ rawHands[1].gesture = "OPEN_PALM"
    /\ rawHands[2].gesture = "FIST"
    /\ Len(gestureEvents) = 1
    /\ gestureEvents[1].type = "EXPLOSION"
    /\ detected > 1

\* ---------------------------------------------------------------- C23
\* x^2 + y^2 <= 16 for the particle at p: false when a coordinate is NaN
Inside(p) == ~IsNaN(p[1]) /\ ~IsNaN(p[2]) /\ ~OutOfBounds(p)

\* C23, as the claim states it: between operations every particle satisfies
\* x^2 + y^2 <= 16.
C23_InsideBoundary == \A i \in Particles : Inside(Vec(positions, i))

\* What holds instead: every particle whose position is a number is inside.
C23_InsideUnlessNaN ==
    \A i \in Particles : Finite3(Vec(positions, i)) => Inside(Vec(positions, i))

\* ---------------------------------------------------------------- C28
AfterGame(op) == called.op = op

\* the points of path, oldest first, are in the order of their times
InTimeOrder(path) ==
    \A i \in 1..Len(path) : \A j \in i..Len(path) : path[i].time <= path[j].time

\* path is the sequence old with the point p added at its end, less its
\* first point when that makes more points than the limit
Appended(path, old, p) ==
    IF Len(old) < pathMaxLength THEN path = Append(old, p)
    ELSE /\ Len(path) = pathMaxLength
         /\ \A k \in 1..(pathMaxLength - 1) : path[k] = old[k + 1]
         /\ path[pathMaxLength] = p

\* kept holds the points of old that are younger than pathFadeTime at time
\* t, and no others, in their order
Unfaded(kept, old, t) ==
    /\ \A k \in 1..Len(kept) : t - kept[k].time < pathFadeTime
    /\ Len(kept) = Cardinality({k \in 1..Len(old) : t - old[k].time < pathFadeTime})
    /\ \A k \in 1..Len(kept) : \E m \in k..Len(old) : kept[k] = old[m]

\* C28: the drawing path never holds more than pathMaxLength points and
\* holds them in time order; addDrawPoint adds its point at the end and,
\* when the path was full, drops the oldest; getActivePath returns, and
\* leaves as the path, exactly the points younger than pathFadeTime.
C28_BoundedPath ==
    /\ Len(drawPath) <= pathMaxLength
    /\ InTimeOrder(drawPath)
    /\ AfterGame("addDrawPoint") =>
          Appended(drawPath, called.pre.drawPath,
                   [x |-> called.args[1], y |-> called.args[2], time |-> called.time])
    /\ AfterGame("getActivePath") =>
          /\ called.result = drawPath
          /\ Unfaded(drawPath, called.pre.drawPath, called.time)

\* C28 witness: a point added to a full path pushed the oldest point out,
\* and the path holds a point that has since faded.
C28_OldestDropped ==
    /\ AfterGame("addDrawPoint")
    /\ Len(called.pre.drawPath) = pathMaxLength
    /\ Len(drawPath) = pathMaxLength
    /\ drawPath[1] = called.pre.drawPath[2]
    /\ now - drawPath[1].time >= pathFadeTime

\* ---------------------------------------------------------------- C29
Called == called.op # "constructor"

\* a GameMode constructed now would read the high score n from localStorage
StoredHighScore(n) == storage.present /\ parseInt(storage.text) = n

\* C29: the high score is at least the score; no call lowers it; and a call
\* that raises it leaves the new value in localStorage.
C29_HighScoreDominates ==
    /\ highScore >= score
    /\ Called => highScore >= called.pre.highScore
    /\ (Called /\ highScore > called.pre.highScore) => StoredHighScore(highScore)

\* C29 witness: a visit that found 120 stored has scored past it, and the
\* call that did so has stored the new high score.
C29_RecordBeaten ==
    /\ AfterGame("addScore")
    /\ called.pre.highScore = 120
    /\ called.pre.score <= 120
    /\ score > 120
    /\ highScore = score
    /\ StoredHighScore(score)

\* ---------------------------------------------------------------- C30
\* the combo that multiplies the points of an addScore call: 1 once more
\* than comboTimeout has passed since the last scoring or combo event
Multiplier ==
    IF called.time - called.pre.comboTimer > comboTimeout THEN 1 ELSE called.pre.combo

\* C30: the combo is an integer from 1 to 10; increaseCombo raises it by one
\* but not above 10; resetScore sets it to 1; addScore sets it to 1 before
\* it scores when the combo has timed out, and scores the points times the
\* combo.
C30_ComboBounds ==
    /\ combo \in 1..10
    /\ AfterGame("increaseCombo") =>
          combo = (IF called.pre.combo < 10 THEN called.pre.combo + 1 ELSE 10)
    /\ AfterGame("resetScore") => combo = 1
    /\ AfterGame("addScore") =>
          /\ combo = Multiplier
          /\ score = called.pre.score + called.args[1] * Multiplier

\* C30 witness: increaseCombo called at combo 10.
C30_ComboCapped ==
    /\ AfterGame("increaseCombo")
    /\ called.pre.combo = 10
    /\ combo = 10

\* ---------------------------------------------------------------- C25
\* C25, as the claim states it: the chaos flag of the application equals the
\* chaos flag of its Physics.
C25_ChaosFlagConsistent == appChaosMode = chaosMode

\* ---------------------------------------------------------------- C26
\* C26, as the claim states it: while a challenge is active the mode is one
\* of the challenge types.
C26_ChallengeHasItsMode == challengeActive => currentMode \in ChallengeTypes

\* ---------------------------------------------------------------- C27
\* C27, as the claim states it: outside draw mode the drawing path is empty.
C27_NoPathOutsideDraw == currentMode # "draw" => drawPath = <<>>

\* The routes that do clear the path: the draw toggle and Start Fresh.
C27_ClearedBySetMode ==
    (AfterGame("setMode") /\ currentMode # "draw") => drawPath = <<>>

\* ------------------------------------------------------------------ C24
\* C24, as the claim states it: at most one animation frame callback is
\* requested at any time.
C24_SingleLoop == pending <= 1

\* ------------------------------------------------------------------ C22
\* What a call of updateChallenge did, read from the call it recorded.
Elapsed == called.time - called.pre.challengeTimer

Judged ==
    AfterGame("updateChallenge") =>
       /\ ~called.pre.challengeActive =>
             /\ called.result.null
             /\ Fields(Game) = called.pre
       /\ (called.pre.challengeActive /\ Elapsed >= challengeDuration) =>
             /\ ~challengeActive
             /\ currentMode = "free"
             /\ ~called.result.null
             /\ called.result.completed
             /\ called.result.success
                   = (called.pre.challengeProgress >= called.pre.challengeGoal)
       /\ (called.pre.challengeActive /\ Elapsed < challengeDuration) =>
             /\ challengeActive
             /\ ~called.result.null
             /\ ~called.result.completed

====
